---- MODULE Spec2Model ----
(***************************************************************************)
(* Answer-resolution pipeline of the RAG chatbot: tenant registry,         *)
(* retrieval, RSQ, extraction tiers, model router, generation with its     *)
(* fallback chain, post-processing and the chat endpoints.                 *)
(*                                                                         *)
(* Python strings are TLA+ strings, processed character by character.      *)
(* Python None is the model value None.  Scores and the RSQ are integers   *)
(* in units of 1/10000 (0.05 is 500).                                      *)
(***************************************************************************)
EXTENDS Integers, Sequences, FiniteSets, TLC

None == "<None>"

\* None where an object is expected (a model handle, a router, a frame, a response)
NoObject == [none |-> TRUE]

\* None where a timeout is expected
NoTimeout == 0

(***************************************************************************)
(* String primitives (Python str methods and the re patterns of the code)  *)
(***************************************************************************)
WS == {" ", "\t", "\n", "\r"}

UpperChars == {"A","B","C","D","E","F","G","H","I","J","K","L","M","N","O","P","Q","R","S","T","U","V","W","X","Y","Z","Ä","Ö","Ü"}

LowerChars == {"a","b","c","d","e","f","g","h","i","j","k","l","m","n","o","p","q","r","s","t","u","v","w","x","y","z","ä","ö","ü","ß"}

\* the bullet character U+2022 of the source; the module alphabet has no U+2022, U+00B7 stands for it
Bullet == "·"

Digits == {"0","1","2","3","4","5","6","7","8","9"}

LowerOf == [c \in UpperChars |->
    CASE c = "A" -> "a" [] c = "B" -> "b" [] c = "C" -> "c" [] c = "D" -> "d"
      [] c = "E" -> "e" [] c = "F" -> "f" [] c = "G" -> "g" [] c = "H" -> "h"
      [] c = "I" -> "i" [] c = "J" -> "j" [] c = "K" -> "k" [] c = "L" -> "l"
      [] c = "M" -> "m" [] c = "N" -> "n" [] c = "O" -> "o" [] c = "P" -> "p"
      [] c = "Q" -> "q" [] c = "R" -> "r" [] c = "S" -> "s" [] c = "T" -> "t"
      [] c = "U" -> "u" [] c = "V" -> "v" [] c = "W" -> "w" [] c = "X" -> "x"
      [] c = "Y" -> "y" [] c = "Z" -> "z" [] c = "Ä" -> "ä" [] c = "Ö" -> "ö"
      [] c = "Ü" -> "ü"]

\* F applied to v: F names the value v, as a local variable of the source names it
With(v, F(_)) == F(v)

Min(a, b) == IF a < b THEN a ELSE b

Max(a, b) == IF a > b THEN a ELSE b

\* Python slice s[a-1:b] (1-based inclusive bounds, clipped to the string like a Python slice)
Slice(s, a, b) == SubSeq(s, Max(a, 1), Min(b, Len(s)))

\* the character at position i, "" outside the string
Ch(s, i) == IF 1 <= i /\ i <= Len(s) THEN SubSeq(s, i, i) ELSE ""

\* least element of a non-empty set of integers
Least(S) == CHOOSE i \in S : \A j \in S : i <= j

\* the k-th smallest element of a set of integers
NthOf(S, k) == CHOOSE i \in S : Cardinality({j \in S : j < i}) = k - 1

\* Python: s.lower() (halving keeps the evaluation shallow)
RECURSIVE Lower(_)
Lower(s) ==
    IF Len(s) = 0 THEN ""
    ELSE IF Len(s) = 1 THEN (IF s \in UpperChars THEN LowerOf[s] ELSE s)
    ELSE Lower(SubSeq(s, 1, Len(s) \div 2)) \o Lower(SubSeq(s, Len(s) \div 2 + 1, Len(s)))

\* Python: s.upper()
RECURSIVE Upper(_)
Upper(s) ==
    IF Len(s) = 0 THEN ""
    ELSE IF Len(s) = 1
      THEN With({u \in UpperChars : LowerOf[u] = s}, LAMBDA us : IF us = {} THEN s ELSE CHOOSE u \in us : TRUE)
    ELSE Upper(SubSeq(s, 1, Len(s) \div 2)) \o Upper(SubSeq(s, Len(s) \div 2 + 1, Len(s)))

\* Python: s.strip()
Strip(s) ==
    With({i \in 1..Len(s) : Ch(s, i) \notin WS},
         LAMBDA idx : IF idx = {} THEN ""
                      ELSE SubSeq(s, Least(idx), Len(s) - Least({Len(s) - i : i \in idx})))

StartsWith(s, p) == Len(s) >= Len(p) /\ Slice(s, 1, Len(p)) = p

EndsWith(s, p) == Len(s) >= Len(p) /\ Slice(s, Len(s) - Len(p) + 1, Len(s)) = p

\* least position >= from at which sub occurs in s, 0 when there is none
Find(s, sub, from) ==
    With({i \in from..(Len(s) - Len(sub) + 1) : Slice(s, i, i + Len(sub) - 1) = sub},
         LAMBDA cand : IF cand = {} THEN 0 ELSE Least(cand))

\* Python: sub in s
Contains(s, sub) == sub = "" \/ Find(s, sub, 1) # 0

\* end of the maximal run of characters of class cls that starts at i (i-1 when empty)
RunEnd(s, i, cls) ==
    With({j \in i..Len(s) : Ch(s, j) \notin cls},
         LAMBDA stop : IF stop = {} THEN Max(Len(s), i - 1) ELSE Least(stop) - 1)

\* the pieces of s between the maximal runs of separator characters (re.split(r'[seps]+', s))
SplitRuns(s, seps) ==
    With({i \in 1..Len(s) : Ch(s, i) \in seps /\ (i = 1 \/ Ch(s, i - 1) \notin seps)},
         LAMBDA first :
           With({i \in 1..Len(s) : Ch(s, i) \in seps /\ (i = Len(s) \/ Ch(s, i + 1) \notin seps)},
                LAMBDA last :
                  [k \in 1..(Cardinality(first) + 1) |->
                      Slice(s, IF k = 1 THEN 1 ELSE NthOf(last, k - 1) + 1,
                               IF k = Cardinality(first) + 1 THEN Len(s) ELSE NthOf(first, k) - 1)]))

\* Python: s.split(c) for a one-character separator
Split(s, c) ==
    With({i \in 1..Len(s) : Ch(s, i) = c},
         LAMBDA P :
           [k \in 1..(Cardinality(P) + 1) |->
               Slice(s, IF k = 1 THEN 1 ELSE NthOf(P, k - 1) + 1,
                        IF k = Cardinality(P) + 1 THEN Len(s) ELSE NthOf(P, k) - 1)])

\* Python: s.split() (runs of whitespace separate, no empty words)
SplitWs(s) == With(Strip(s), LAMBDA t : IF t = "" THEN <<>> ELSE SplitRuns(t, WS))

\* Python: s.replace(sub, "")
RECURSIVE Remove(_, _)
Remove(s, sub) ==
    With(Find(s, sub, 1),
         LAMBDA p : IF p = 0 THEN s
                    ELSE Slice(s, 1, p - 1) \o Remove(Slice(s, p + Len(sub), Len(s)), sub))

\* Python: sep.join(parts)
RECURSIVE Join(_, _)
Join(parts, sep) ==
    IF parts = <<>> THEN ""
    ELSE IF Len(parts) = 1 THEN parts[1]
    ELSE Join(SubSeq(parts, 1, Len(parts) \div 2), sep) \o sep
           \o Join(SubSeq(parts, Len(parts) \div 2 + 1, Len(parts)), sep)

\* Python: seq[:n]
Take(seq, n) == SubSeq(seq, 1, Min(Len(seq), n))

\* [x.strip() for x in seq]
MapStrip(seq) == [i \in 1..Len(seq) |-> Strip(seq[i])]

(***************************************************************************)
(* main.py: is_greeting, format_chunk_fallback                             *)
(***************************************************************************)
Greetings == {"hallo", "hi", "hey", "guten tag", "guten morgen", "guten abend", "servus", "moin"}

is_greeting(text) == Lower(Strip(text)) \in Greetings

\* re.split(r'[.!?]+', text)
SplitSentences(s) == SplitRuns(s, {".", "!", "?"})

\* [s.strip() for s in sentences if len(s.strip()) > 20][:3]
RelevantSentences(chunk_text) ==
    Take(SelectSeq(MapStrip(SplitSentences(chunk_text)), LAMBDA x : Len(x) > 20), 3)

format_chunk_fallback(chunk_text) ==
    With(RelevantSentences(chunk_text),
         LAMBDA relevant_sentences :
           IF relevant_sentences # <<>> THEN Join(relevant_sentences, ". ") \o "."
           ELSE IF Len(chunk_text) > 200 THEN Slice(chunk_text, 1, 200) \o "..."
           ELSE chunk_text)

(***************************************************************************)
(* rag_engine.py: RAGEngine.clean_answer                                   *)
(***************************************************************************)
\* company_id and company_id.lower() == "planovo"
\* company_id == "planovo", compared with case
IsPlanovoExact(company_id) == company_id = "planovo"

\* company_id and company_id.lower() == "planovo"
IsPlanovo(company_id) == company_id # None /\ company_id # "" /\ Lower(company_id) = "planovo"

clean_answer(text, company_id) ==
    LET \* re.sub(r'Quellen:.*?(?=\n|$)', '', text, flags=re.IGNORECASE | re.MULTILINE)
        RECURSIVE RemoveQuellen(_)
        RemoveQuellen(text1) ==
            With(Find(Lower(text1), "quellen:", 1),
                 LAMBDA p :
                   IF p = 0 THEN text1
                   ELSE With(Find(text1, "\n", p + 8),
                             LAMBDA nl :
                               Slice(text1, 1, p - 1)
                                 \o RemoveQuellen(Slice(text1, IF nl = 0 THEN Len(text1) + 1 ELSE nl, Len(text1)))))

        blacklist == <<"FELD:", "Pflicht:", "Typische Nutzerfragen", "FRAGE:", "ERWARTETE ANTWORT:", "TESTFRAGEN", "=== ", "--- ", "**">>

        \* for item in blacklist: cleaned = cleaned.replace(item, "")
        RECURSIVE RemoveAll(_, _)
        RemoveAll(text1, items) ==
            IF items = <<>> THEN text1 ELSE RemoveAll(Remove(text1, items[1]), Tail(items))

        forbidden_starters == <<"FRAGE:", "ERWARTETE ANTWORT:", "FELD:", "Pflicht:", "Typische Nutzerfragen", "Quellen:", "TESTFRAGEN">>

        \* Python: s.isupper()
        IsUpper(s) ==
            /\ \E i \in 1..Len(s) : Ch(s, i) \in UpperChars
            /\ \A i \in 1..Len(s) : Ch(s, i) \notin LowerChars

        \* the body of the line loop of clean_answer: TRUE when the line is kept
        KeepLine(line) ==
            \E line_stripped \in {Strip(line)} : \E line_upper \in {Upper(line_stripped)} :
            \E words \in {SplitWs(line_stripped)} :
                /\ \A k \in 1..Len(forbidden_starters) : ~StartsWith(line_upper, Upper(forbidden_starters[k]))
                /\ ~( (StartsWith(line_stripped, "- ") \/ StartsWith(line_stripped, Bullet \o " "))
                      /\ (EndsWith(line_stripped, "?") \/ Len(words) <= 5) )
                /\ line_stripped # ""
                /\ ~(EndsWith(line_stripped, ":") /\ Len(line_stripped) < 30)
                /\ ~(IsUpper(line_stripped) /\ Len(line_stripped) > 5)
                /\ (Len(words) > 1 \/ Len(line_stripped) > 15)

        \* re.sub(r'\n\s*\n\s*\n+', '\n\n', result)
        RECURSIVE CollapseBlankLines(_)
        CollapseBlankLines(s) ==
            With({i \in 1..Len(s) :
                    /\ Ch(s, i) = "\n"
                    /\ Cardinality({j \in i..RunEnd(s, i, WS) : Ch(s, j) = "\n"}) >= 3},
                 LAMBDA starts :
                   IF starts = {} THEN s
                   ELSE With(Least(starts),
                             LAMBDA p :
                               With(RunEnd(s, p, WS),
                                    LAMBDA r :
                                      Slice(s, 1, p - 1) \o "\n\n"
                                        \o CollapseBlankLines(
                                             Slice(s, 1 + (CHOOSE j \in p..r :
                                                             Ch(s, j) = "\n" /\ \A k \in (j+1)..r : Ch(s, k) # "\n"),
                                                   Len(s))))))

        \* the first line is dropped when it is a question of at most eight words
        DropQuestion(result, result_lines, first_line) ==
            IF EndsWith(first_line, "?") /\ Len(SplitWs(first_line)) <= 8
            THEN Strip(Join(Tail(result_lines), "\n"))
            ELSE result
    IN
    IF ~IsPlanovo(company_id) THEN text
    ELSE IF text = "" THEN text
    ELSE With(Strip(Join(SelectSeq(Split(RemoveAll(RemoveQuellen(text), blacklist), "\n"), KeepLine), "\n")),
              LAMBDA result :
                With(Split(result, "\n"),
                     LAMBDA result_lines :
                       CollapseBlankLines(DropQuestion(result, result_lines, Strip(result_lines[1])))))

(***************************************************************************)
(* rag_engine.py: RAGEngine._extract_simple_answer (fact tier)             *)
(***************************************************************************)
AsciiUpper == UpperChars \ {"Ä", "Ö", "Ü"}

AsciiLower == LowerChars \ {"ä", "ö", "ü", "ß"}

\* re.sub(r'\s+', ' ', chunk_text)
NormalizeWs(s) == Join(SplitRuns(s, WS), " ")

\* positions at which the lower-cased text continues with word (re.IGNORECASE literal)
OccurrencesCI(s, word) ==
    With(Lower(s), LAMBDA low : {i \in 1..(Len(s) - Len(word) + 1) : Slice(low, i, i + Len(word) - 1) = word})

\* re.search(r'<label>[:\s]*([\d.,]+\s*€)', s, re.IGNORECASE): the first match, <<>> when there is none
AmountSearch(s, label) ==
    LET \* <label>[:\s]*([\d.,]+)\s*€ matched at position p: <<start, end of the number, position of the euro sign>>, <<>> when it fails
        AmountAt(p) ==
            With(RunEnd(s, p + Len(label), WS \cup {":"}) + 1,
                 LAMBDA a :
                   With(RunEnd(s, a, Digits \cup {".", ","}),
                        LAMBDA d :
                          With(RunEnd(s, d + 1, WS) + 1,
                               LAMBDA w : IF d >= a /\ w <= Len(s) /\ Ch(s, w) = "€" THEN <<a, d, w>> ELSE <<>>)))
    IN
    With({p \in OccurrencesCI(s, label) : AmountAt(p) # <<>>},
         LAMBDA hits : IF hits = {} THEN <<>> ELSE AmountAt(Least(hits)))

\* the branch of one amount label: None when the pattern does not match
AmountAnswer(chunk_text, label, prefix) ==
    With(NormalizeWs(chunk_text),
         LAMBDA normalized_text :
           With(AmountSearch(normalized_text, label),
                LAMBDA m : IF m = <<>> THEN None ELSE prefix \o Strip(Slice(normalized_text, m[1], m[3]))))

DateAnswer(query_lower, chunk_text) ==
    LET IsDigitAt(i) == Ch(chunk_text, i) \in Digits

        \* \d{1,2}\. matched at i: the position after the dot, 0 when it fails
        DayAt(i) ==
            IF IsDigitAt(i) /\ IsDigitAt(i + 1) /\ Ch(chunk_text, i + 2) = "." THEN i + 3
            ELSE IF IsDigitAt(i) /\ Ch(chunk_text, i + 1) = "." THEN i + 2
            ELSE 0

        \* \d{1,2}\.\d{1,2}\.\d{4} matched at i: the end position, 0 when it fails
        DateAt(i) ==
            With(DayAt(i),
                 LAMBDA m :
                   With(IF m = 0 THEN 0 ELSE DayAt(m),
                        LAMBDA y : IF y # 0 /\ \A k \in 0..3 : IsDigitAt(y + k) THEN y + 3 ELSE 0))

        \* the dates of the text: the position of each match and its end
        dates == [i \in 1..Len(chunk_text) |-> DateAt(i)]
    IN
    LET IsDate(d) == 1 <= d /\ d <= Len(chunk_text) /\ dates[d] # 0

        \* (?:bis zum|fällig|bis)\s+(date) matched at p with the alternative alt: the start of the date, 0 when it fails
        DueWith(low, p, alt) ==
            With(RunEnd(chunk_text, p + Len(alt), WS) + 1,
                 LAMBDA d : IF Slice(low, p, p + Len(alt) - 1) = alt /\ d > p + Len(alt) /\ IsDate(d) THEN d ELSE 0)

        \* Rechnungsdatum[:\s]*(date) matched at p: the start of the date, 0 when it fails
        InvoiceDateAt(p) ==
            With(RunEnd(chunk_text, p + Len("rechnungsdatum"), WS \cup {":"}) + 1,
                 LAMBDA d : IF IsDate(d) THEN d ELSE 0)

        Date(d) == Slice(chunk_text, d, dates[d])
    IN
    LET \* the first alternative that matches at p
        DueAt(low, p) ==
            With(SelectSeq(<<DueWith(low, p, "bis zum"), DueWith(low, p, "fällig"), DueWith(low, p, "bis")>>,
                           LAMBDA d : d # 0),
                 LAMBDA ds : IF ds = <<>> THEN 0 ELSE ds[1])
    IN
    With(Lower(chunk_text),
         LAMBDA low :
           With(SelectSeq([p \in 1..Len(chunk_text) |-> DueAt(low, p)], LAMBDA d : d # 0),
                LAMBDA due :
                  IF (Contains(query_lower, "fällig") \/ Contains(query_lower, "bis")) /\ due # <<>>
                    THEN "Die Rechnung ist bis zum " \o Date(due[1]) \o " fällig"
                  ELSE With({p \in OccurrencesCI(chunk_text, "rechnungsdatum") : InvoiceDateAt(p) # 0},
                            LAMBDA inv :
                              IF inv # {} THEN "Das Rechnungsdatum ist " \o Date(InvoiceDateAt(Least(inv)))
                              ELSE With({p \in 1..Len(chunk_text) : dates[p] # 0},
                                        LAMBDA any : IF any # {} THEN "Das Datum ist " \o Date(Least(any))
                                                     ELSE None))))

CompanyAnswer(chunk_text) ==
    LET CompanyStopWords == {"ihr", "unternehmen", "rechnung", "betreff", "seite", "damen", "herren"}

        \* the line test of the company branch, on the words of the line
        IsCompanyLine(words) ==
            /\ 2 <= Len(words) /\ Len(words) <= 4
            \* all(w[0].isupper() for w in words if w and w[0].isalpha())
            /\ \A k \in 1..Len(words) :
                  Ch(words[k], 1) \in (UpperChars \cup LowerChars) => Ch(words[k], 1) \in UpperChars
            /\ \A k \in 1..Len(words) : Lower(words[k]) \notin CompanyStopWords

        \* ([A-Z][a-z]+\s+[A-Z][a-z]+) matched at i: the end position, 0 when it fails
        TwoNamesAt(i) ==
            With(RunEnd(chunk_text, i + 1, AsciiLower),
                 LAMBDA a :
                   With(RunEnd(chunk_text, a + 1, WS) + 1,
                        LAMBDA b :
                          With(RunEnd(chunk_text, b + 1, AsciiLower),
                               LAMBDA c :
                                 IF /\ Ch(chunk_text, i) \in AsciiUpper /\ a >= i + 1 /\ b > a + 1
                                    /\ Ch(chunk_text, b) \in AsciiUpper /\ c >= b + 1
                                 THEN c ELSE 0)))

        \* the second pattern: the first two capitalised words, unless they name the addressee
        NameAnswer(two) ==
            IF two = <<>> THEN None
            ELSE With(Slice(chunk_text, two[1][1], two[1][2]),
                      LAMBDA name : IF ~Contains(name, "Ihr") /\ ~Contains(name, "Unternehmen")
                                    THEN "Die Firma heißt " \o name ELSE None)
    IN
    With(MapStrip(Take(Split(chunk_text, "\n"), 15)),
         LAMBDA lines :
           With(SelectSeq(lines, LAMBDA line : IsCompanyLine(SplitWs(line))),
                LAMBDA good :
                  IF good # <<>> THEN "Die Firma heißt " \o good[1]
                  ELSE NameAnswer(SelectSeq([i \in 1..Len(chunk_text) |-> <<i, TwoNamesAt(i)>>],
                                            LAMBDA m : m[2] # 0))))

InvoiceNoAnswer(chunk_text) ==
    LET \* the characters of [A-Z0-9\-] under re.IGNORECASE
        cls == AsciiUpper \cup AsciiLower \cup Digits \cup {"-"}

        \* Nr\.? matched at r2 after "rechnung" and whitespace: the position after it, 0 when it fails
        AfterNr(low, r2) ==
            IF Slice(low, r2, r2 + 1) = "nr" THEN (IF Ch(chunk_text, r2 + 2) = "." THEN r2 + 3 ELSE r2 + 2) ELSE 0

        \* (?:INV|Rechnung\s+Nr\.?) matched at p: the position after it, 0 when it fails
        PrefixEnd(low, p) ==
            IF Slice(low, p, p + 2) = "inv" THEN p + 3
            ELSE IF Slice(low, p, p + 7) = "rechnung" /\ RunEnd(chunk_text, p + 8, WS) >= p + 8
              THEN AfterNr(low, RunEnd(chunk_text, p + 8, WS) + 1)
            ELSE 0

        \* ([A-Z0-9\-]+) matched at a: <<start, end>>, <<>> when it fails
        GroupAt(a) == With(RunEnd(chunk_text, a, cls), LAMBDA z : IF z >= a THEN <<a, z>> ELSE <<>>)

        \* \s*[:\-]?\s*([A-Z0-9\-]+) matched at e, the separator tried first
        NumberAt(a) ==
            With(IF Ch(chunk_text, a) \in {":", "-"} THEN GroupAt(RunEnd(chunk_text, a + 1, WS) + 1) ELSE <<>>,
                 LAMBDA withSep : IF withSep # <<>> THEN withSep ELSE GroupAt(a))
    IN
    LET \* the pattern matched at p: <<start, end>> of the group, <<>> when it fails
        InvoiceNoAt(low, p) ==
            With(PrefixEnd(low, p),
                 LAMBDA e : IF e = 0 THEN <<>> ELSE NumberAt(RunEnd(chunk_text, e, WS) + 1))
    IN
    With(Lower(chunk_text),
         LAMBDA low :
           With(SelectSeq([p \in 1..Len(chunk_text) |-> InvoiceNoAt(low, p)], LAMBDA m : m # <<>>),
                LAMBDA hits :
                  IF hits = <<>> THEN None
                  ELSE "Die Rechnungsnummer ist " \o Slice(chunk_text, hits[1][1], hits[1][2])))

\* the conclusion/outlook branch
FazitAnswer(chunk_text) ==
    LET \* the lines from the first line of the conclusion on: stripped, longer than 10 characters, at most 5
        RelevantFrom(lines, keyed) ==
            IF keyed = {} THEN <<>>
            ELSE Take(SelectSeq(MapStrip(SubSeq(lines, Least(keyed), Len(lines))), LAMBDA x : Len(x) > 10), 5)

        IsKeyed(line) ==
            With(Lower(line), LAMBDA l : (Contains(l, "fazit") \/ Contains(l, "ausblick")) /\ Len(Strip(line)) > 5)
    IN
    With(Split(chunk_text, "\n"),
         LAMBDA lines :
           With(RelevantFrom(lines, {k \in 1..Len(lines) : IsKeyed(lines[k])}),
                LAMBDA relevant_lines :
                  IF relevant_lines # <<>> THEN Join(Take(relevant_lines, 3), "\n") ELSE None))

ChapterAnswer(query_lower, chunk_text) ==
    LET \* kapitel\s+(\d+\.\d+) matched at p: the chapter number, None when it fails
        At(p) ==
            With(RunEnd(query_lower, p + 7, WS) + 1,
                 LAMBDA a :
                   With(RunEnd(query_lower, a, Digits),
                        LAMBDA b :
                          IF /\ Slice(query_lower, p, p + 6) = "kapitel" /\ a > p + 7 /\ b >= a
                             /\ Ch(query_lower, b + 1) = "." /\ RunEnd(query_lower, b + 2, Digits) >= b + 2
                          THEN Slice(query_lower, a, RunEnd(query_lower, b + 2, Digits)) ELSE None))

        \* the line i and the up to five lines after it that are longer than 10 characters
        Relevant(lines, i) ==
            <<Strip(lines[i])>> \o
            SelectSeq(MapStrip(SubSeq(lines, i + 1, Min(i + 5, Len(lines)))), LAMBDA x : Len(x) > 10)

        IsGood(lines, i, chapter_num) ==
            Contains(lines[i], chapter_num) /\ Len(Strip(lines[i])) > 5 /\ Len(Relevant(lines, i)) > 1
    IN
    \* re.search(r'kapitel\s+(\d+\.\d+)', query_lower)
    With(SelectSeq([p \in 1..Len(query_lower) |-> At(p)], LAMBDA n : n # None),
         LAMBDA nums :
           IF nums = <<>> THEN None
           ELSE With(Split(chunk_text, "\n"),
                     LAMBDA lines :
                       With({i \in 1..Len(lines) : IsGood(lines, i, nums[1])},
                            LAMBDA good : IF good = {} THEN None
                                          ELSE Join(Take(Relevant(lines, Least(good)), 4), "\n"))))

\* Python: str(n) for n >= 0
RECURSIVE IntToStr(_)
IntToStr(n) ==
    IF n < 10 THEN <<"0","1","2","3","4","5","6","7","8","9">>[n + 1]
    ELSE IntToStr(n \div 10) \o IntToStr(n % 10)

\* num/den rounded to an integer, ties to even
RoundDiv(num, den) ==
    IF 2 * (num % den) > den \/ (2 * (num % den) = den /\ (num \div den) % 2 = 1)
    THEN num \div den + 1 ELSE num \div den

SkontoAnswer(chunk_text) ==
    LET \* Python: int(s) for a string of digits
        RECURSIVE ParseInt(_)
        ParseInt(s) ==
            IF s = "" THEN 0
            ELSE ParseInt(SubSeq(s, 1, Len(s) - 1)) * 10
                   + (CHOOSE d \in 0..9 : IntToStr(d) = SubSeq(s, Len(s), Len(s)))

        RECURSIVE Pow10(_)
        Pow10(k) == IF k = 0 THEN 1 ELSE 10 * Pow10(k - 1)

        \* Python: f"{n:,}" for n >= 0
        RECURSIVE Thousands(_)
        Thousands(n) ==
            IF n < 1000 THEN IntToStr(n)
            ELSE Thousands(n \div 1000) \o ","
                   \o (IF n % 1000 < 10 THEN "00" ELSE IF n % 1000 < 100 THEN "0" ELSE "") \o IntToStr(n % 1000)

        \* Python: f"{x:,.2f}" for x = cents/100
        FormatAmount(cents) ==
            Thousands(cents \div 100) \o "." \o (IF cents % 100 < 10 THEN "0" ELSE "") \o IntToStr(cents % 100)

        \* float(betrag_str) succeeds: digits with at most one point and at least one digit
        IsFloat(x) ==
            /\ \A i \in 1..Len(x) : Ch(x, i) \in Digits \cup {"."}
            /\ Cardinality({i \in 1..Len(x) : Ch(x, i) = "."}) <= 1
            /\ \E i \in 1..Len(x) : Ch(x, i) \in Digits
    IN
    LET \* (\d+)\s*%\s*Skonto with re.IGNORECASE matched at i in s: the end of the digits, 0 when it fails
        SkontoAt(s, low, i) ==
            With(RunEnd(s, i, Digits),
                 LAMBDA d :
                   With(RunEnd(s, d + 1, WS) + 1,
                        LAMBDA a :
                          IF d >= i /\ Ch(s, a) = "%"
                             /\ With(RunEnd(s, a + 1, WS) + 1, LAMBDA b : Slice(low, b, b + 5) = "skonto")
                          THEN d ELSE 0))

        \* the saving: skonto_betrag = betrag * (skonto_prozent / 100), betrag being N / 10^k
        Saving(skonto_prozent, N, p10) ==
            "Bei " \o skonto_prozent \o "% Skonto sparen Sie "
              \o FormatAmount(RoundDiv(N * ParseInt(skonto_prozent), p10)) \o " € ("
              \o skonto_prozent \o "% von " \o FormatAmount(RoundDiv(N * 100, p10)) \o " €)"

        \* the branch after the percentage is found, m being the match of the total
        WithTotal(normalized_text, skonto_prozent, m) ==
            IF m = <<>> THEN "Es gibt " \o skonto_prozent \o "% Skonto"
            ELSE With(Join(Split(Remove(Slice(normalized_text, m[1], m[2]), "."), ","), "."),
                      LAMBDA betrag_str :
                        IF ~IsFloat(betrag_str) THEN "Es gibt " \o skonto_prozent \o "% Skonto"
                        ELSE With(Find(betrag_str, ".", 1),
                                  LAMBDA point :
                                    Saving(skonto_prozent, ParseInt(Remove(betrag_str, ".")),
                                           Pow10(IF point = 0 THEN 0 ELSE Len(betrag_str) - point))))
    IN
    With(NormalizeWs(chunk_text),
         LAMBDA normalized_text :
           With(With(Lower(normalized_text),
                     LAMBDA low : SelectSeq([i \in 1..Len(normalized_text) |->
                                               <<i, SkontoAt(normalized_text, low, i)>>],
                                            LAMBDA h : h[2] # 0)),
                LAMBDA hits :
                  IF hits = <<>> THEN None
                  ELSE WithTotal(normalized_text,
                                 IntToStr(ParseInt(Slice(normalized_text, hits[1][1], hits[1][2]))),
                                 AmountSearch(normalized_text, "gesamtbetrag"))))

\* the first value of a sequence of optional values that is not None
FirstOf(opts) ==
    With(SelectSeq(opts, LAMBDA o : o # None), LAMBDA some : IF some = <<>> THEN None ELSE some[1])

_extract_simple_answer(query, chunk_text) ==
    With(Lower(query),
         LAMBDA query_lower :
           LET In(kw) == Contains(query_lower, kw)
           IN  FirstOf(<<
                 IF In("gesamtbetrag") \/ (In("wie hoch") /\ In("betrag"))
                   THEN AmountAnswer(chunk_text, "gesamtbetrag", "Der Gesamtbetrag beträgt ") ELSE None,
                 IF In("nettobetrag")
                   THEN AmountAnswer(chunk_text, "nettobetrag", "Der Nettobetrag beträgt ") ELSE None,
                 IF In("skonto") \/ In("spare") \/ (In("wie viel") /\ In("spare"))
                   THEN SkontoAnswer(chunk_text) ELSE None,
                 IF In("datum") \/ In("wann") THEN DateAnswer(query_lower, chunk_text) ELSE None,
                 IF In("firma") \/ In("unternehmen") \/ (In("wie heißt") /\ In("firma"))
                   THEN CompanyAnswer(chunk_text) ELSE None,
                 IF In("rechnungsnummer") \/ (In("rechnung") /\ In("nummer")) \/ In("inv")
                   THEN InvoiceNoAnswer(chunk_text) ELSE None,
                 IF In("fazit") \/ In("ausblick") THEN FazitAnswer(chunk_text) ELSE None,
                 ChapterAnswer(query_lower, chunk_text) >>))

(***************************************************************************)
(* rag_engine.py: RAGEngine._extract_list_answer (list tier)               *)
(***************************************************************************)
ListStarters == <<"welche", "was sind", "nenne", "zähle">>

QueryLetters == AsciiLower \cup {"ä", "ö", "ü"}

\* t continues at position i with word
HasAt(t, i, word) == Slice(t, i, i + Len(word) - 1) = word

\* the position after a non-empty whitespace run that starts at i, 0 when there is no whitespace at i
AfterWs(t, i) == IF Ch(t, i) \in WS THEN RunEnd(t, i, WS) + 1 ELSE 0

MentionsModule(x) ==
    With(Lower(x), LAMBDA x_lower : Contains(x_lower, "modul") \/ Contains(x_lower, "pattern"))

\* priority 1: the items of a bracketed enumeration
BracketItems(full_text) ==
    LET \* re.search(r'\(([^)]*(?:-Modul|-Pattern)[^)]*)\)', full_text, re.IGNORECASE) opening at i:
        \* group 1, None without a match
        GroupAt(i) ==
            With(Find(full_text, ")", i + 1),
                 LAMBDA close :
                   IF Ch(full_text, i) = "(" /\ close # 0
                   THEN With(Slice(full_text, i + 1, close - 1),
                             LAMBDA inner :
                               With(Lower(inner),
                                    LAMBDA inner_lower :
                                      IF Contains(inner_lower, "-modul") \/ Contains(inner_lower, "-pattern")
                                      THEN inner ELSE None))
                   ELSE None)

        \* the match of \s+und\s+ in x that starts at p: <<start, end>>, <<>> when there is none
        UndAt(x, p) ==
            With(RunEnd(x, p, WS),
                 LAMBDA e :
                   IF Ch(x, p) \in WS /\ HasAt(x, e + 1, "und")
                   THEN With(AfterWs(x, e + 4), LAMBDA a : IF a # 0 THEN <<p, a - 1>> ELSE <<>>)
                   ELSE <<>>)

        \* re.split(r'\s+und\s+', x)
        RECURSIVE SplitUnd(_)
        SplitUnd(x) ==
            With(SelectSeq([p \in 1..Len(x) |-> UndAt(x, p)], LAMBDA m : m # <<>>),
                 LAMBDA ms :
                   IF ms = <<>> THEN <<x>>
                   ELSE <<Slice(x, 1, ms[1][1] - 1)>> \o SplitUnd(Slice(x, ms[1][2] + 1, Len(x))))

        \* for m in modules: split m at commas when it has one, strip the parts
        RECURSIVE SplitCommas(_)
        SplitCommas(modules) ==
            IF modules = <<>> THEN <<>>
            ELSE MapStrip(Split(modules[1], ",")) \o SplitCommas(Tail(modules))
    IN  With(FirstOf([i \in 1..Len(full_text) |-> GroupAt(i)]),
             LAMBDA modules_str :
               IF modules_str = None THEN <<>>
               ELSE With(SelectSeq(SplitCommas(SplitUnd(modules_str)),
                                   LAMBDA m : Strip(m) # "" /\ MentionsModule(m)),
                         LAMBDA found_items :
                           SelectSeq(found_items,
                                     LAMBDA item : Lower(item) \notin {"und", ""} /\ Len(item) > 3)))

\* priority 2: module names in the running text
TextItems(full_text) ==
    LET \* ([A-Z][a-zA-ZäöüÄÖÜ]+(?:-Modul|-Pattern)) matched at i: the end position, 0 when it fails
        ModuleNameAt(i) ==
            With(RunEnd(full_text, i + 1, UpperChars \cup (LowerChars \ {"ß"})),
                 LAMBDA r :
                   IF Ch(full_text, i) \in AsciiUpper /\ r >= i + 1
                   THEN IF HasAt(full_text, r + 1, "-Modul") THEN r + 6
                        ELSE IF HasAt(full_text, r + 1, "-Pattern") THEN r + 8 ELSE 0
                   ELSE 0)

        \* re.findall of the pattern from position from on (matches do not overlap);
        \* ends[i] is the end of the match at i
        RECURSIVE FindModuleNames(_, _)
        FindModuleNames(ends, from) ==
            With({i \in from..Len(ends) : ends[i] # 0},
                 LAMBDA hits :
                   IF hits = {} THEN <<>>
                   ELSE With(Least(hits),
                             LAMBDA i : <<Slice(full_text, i, ends[i])>> \o FindModuleNames(ends, ends[i] + 1)))

        \* the elements of seq without repetitions, first occurrences kept in order
        Dedupe(seq) ==
            With({i \in 1..Len(seq) : \A j \in 1..(i - 1) : seq[j] # seq[i]},
                 LAMBDA keep : [k \in 1..Cardinality(keep) |-> seq[NthOf(keep, k)]])
    IN  Take(Dedupe(FindModuleNames([i \in 1..Len(full_text) |-> ModuleNameAt(i)], 1)), 10)

\* priority 3: bulleted or numbered lines
BulletItems(chunk_text) ==
    LET \* re.match(r'^\d+[\.\)]\s+', line_stripped)
        IsNumberedLine(line_stripped) ==
            With(RunEnd(line_stripped, 1, Digits),
                 LAMBDA d : d >= 1 /\ Ch(line_stripped, d + 1) \in {".", ")"} /\ Ch(line_stripped, d + 2) \in WS)

        \* re.sub(r'^[-•\d\.\)\s]+', '', line_stripped)
        StripListMarker(line_stripped) ==
            Slice(line_stripped, RunEnd(line_stripped, 1, Digits \cup WS \cup {"-", Bullet, ".", ")"}) + 1,
                  Len(line_stripped))

        \* the item a line contributes, None when it contributes none
        ItemOf(line_stripped) ==
            IF /\ \/ StartsWith(line_stripped, "-")
                  \/ StartsWith(line_stripped, Bullet)
                  \/ IsNumberedLine(line_stripped)
               /\ Len(line_stripped) < 100
            THEN With(StripListMarker(line_stripped),
                      LAMBDA clean_line : IF clean_line # "" /\ MentionsModule(clean_line) THEN clean_line ELSE None)
            ELSE None
    IN  With(MapStrip(Split(chunk_text, "\n")),
             LAMBDA lines : SelectSeq([k \in 1..Len(lines) |-> ItemOf(lines[k])], LAMBDA item : item # None))

_extract_list_answer(query, chunk_text) ==
    LET NumberWords == <<"drei", "zwei", "vier", "fünf", "sechs", "sieben", "acht", "neun", "zehn">>

        \* (?:drei|...|zehn)\s+([a-zäöü]+) matches t at i
        Num(t, i) ==
            \E n \in 1..Len(NumberWords) :
                /\ HasAt(t, i, NumberWords[n])
                /\ With(AfterWs(t, i + Len(NumberWords[n])), LAMBDA e : e # 0 /\ Ch(t, e) \in QueryLetters)

        \* (?:welche|was sind|nenne|zähle)\s+(?:die\s+)?(?:drei|...|zehn)\s+([a-zäöü]+) matches somewhere in t
        MatchesCountedList(t) ==
            \E p \in 1..Len(t) : \E k \in 1..Len(ListStarters) :
                /\ HasAt(t, p, ListStarters[k])
                /\ With(AfterWs(t, p + Len(ListStarters[k])),
                        LAMBDA a :
                          /\ a # 0
                          /\ \/ Num(t, a)
                             \/ /\ HasAt(t, a, "die")
                                /\ With(AfterWs(t, a + 3), LAMBDA b : b # 0 /\ Num(t, b)))

        \* (?:welche|was sind|nenne|zähle)\s+([a-zäöü]+)\s+(?:gibt es|sind|existieren) matches somewhere in t
        MatchesOpenList(t) ==
            \E p \in 1..Len(t) : \E k \in 1..Len(ListStarters) :
                /\ HasAt(t, p, ListStarters[k])
                /\ With(AfterWs(t, p + Len(ListStarters[k])),
                        LAMBDA a :
                          /\ a # 0
                          /\ With(RunEnd(t, a, QueryLetters),
                                  LAMBDA w :
                                    /\ w >= a
                                    /\ With(AfterWs(t, w + 1),
                                            LAMBDA c :
                                              /\ c # 0
                                              /\ \/ HasAt(t, c, "gibt es")
                                                 \/ HasAt(t, c, "sind")
                                                 \/ HasAt(t, c, "existieren"))))

        \* '\n'.join([f"{i+1}. {item}" for i, item in enumerate(found_items[:10])])
        NumberedList(found_items) ==
            Join([k \in 1..Min(Len(found_items), 10) |-> IntToStr(k) \o ". " \o found_items[k]], "\n")
    IN  With(Lower(query),
             LAMBDA query_lower :
               IF ~(MatchesCountedList(query_lower) \/ MatchesOpenList(query_lower)) THEN None
               ELSE With(BracketItems(chunk_text),
                         LAMBDA p1 :
                           With(IF p1 # <<>> THEN p1 ELSE TextItems(chunk_text),
                                LAMBDA p2 :
                                  With(IF p2 # <<>> THEN p2 ELSE BulletItems(chunk_text),
                                       LAMBDA found_items :
                                         IF found_items # <<>> THEN NumberedList(found_items) ELSE None))))

(***************************************************************************)
(* rag_engine.py: RAGEngine._extract_smart_answer (list + contextual tier) *)
(***************************************************************************)
\* the "wie erstelle/anlegen" branch: a process description
ProcessAnswer(chunk_text) ==
    LET \* re.match(r'^[A-ZÄÖÜ][a-zäöü]+$', line_stripped)
        IsHeadingWord(line_stripped) ==
            /\ Ch(line_stripped, 1) \in UpperChars
            /\ Len(line_stripped) >= 2
            /\ RunEnd(line_stripped, 2, QueryLetters) = Len(line_stripped)

        \* the line starts the description of a process
        IsStart(line_lower) ==
            /\ Contains(line_lower, "projekt")
            /\ \E w \in {"erstellen", "anlegen", "brauchen", "angaben"} : Contains(line_lower, w)

        \* the lines collected from the first start on
        Parts(lines) ==
            With({k \in 1..Len(lines) : IsStart(Lower(lines[k]))},
                 LAMBDA starts :
                   IF starts = {} THEN <<>>
                   ELSE Take(SelectSeq(MapStrip(SubSeq(lines, Least(starts), Len(lines))),
                                       LAMBDA l : Len(l) > 10 /\ (~IsHeadingWord(l) \/ Len(l) > 50)), 10))

        \* an answer of more than 500 characters is cut to five sentences
        Shorten(answer) ==
            IF Len(answer) > 500
            THEN Join(Take(SelectSeq(MapStrip(SplitSentences(answer)), LAMBDA x : Len(x) > 20), 5), ". ") \o "."
            ELSE answer
    IN  With(Parts(Split(chunk_text, "\n")),
             LAMBDA relevant_parts :
               IF relevant_parts = <<>> THEN None ELSE Shorten(Join(Take(relevant_parts, 8), " ")))

\* the "was ist X" branch: the first two lines that mention X
DefinitionAnswer(query_lower, chunk_text) ==
    LET \* re.search(r'was (ist|bedeutet)\s+(.+?)(?:\?|$)', query_lower) for the alternative word at p:
        \* group 2, None without a match
        At(p, word) ==
            IF ~HasAt(query_lower, p, word) THEN None
            ELSE With(AfterWs(query_lower, p + Len(word)),
                      LAMBDA a :
                        IF a = 0 \/ a > Len(query_lower) THEN None
                        ELSE With(Least({j \in (a + 1)..(Len(query_lower) + 1) :
                                           \/ Ch(query_lower, j) = "?"
                                           \/ j = Len(query_lower) + 1
                                           \/ (j = Len(query_lower) /\ Ch(query_lower, j) = "\n")}),
                                  LAMBDA stop :
                                    With(Slice(query_lower, a, stop - 1),
                                         LAMBDA term : IF Contains(term, "\n") THEN None ELSE term)))

        Try(p) == With(At(p, "was ist"), LAMBDA m : IF m # None THEN m ELSE At(p, "was bedeutet"))
    IN  With(FirstOf([p \in 1..Len(query_lower) |-> Try(p)]),
             LAMBDA term :
               IF term = None THEN None
               ELSE With(Lower(Strip(term)),
                         LAMBDA search_term :
                           With(Take(SelectSeq(Split(chunk_text, "\n"),
                                               LAMBDA l : Contains(Lower(l), search_term) /\ Len(Strip(l)) > 10), 2),
                                LAMBDA relevant_lines :
                                  IF relevant_lines = <<>> THEN None
                                  ELSE Join(MapStrip(relevant_lines), " "))))

\* the "welche Namen/Begriffe/Kapitel" branch: headings and capitalised lines
HeadingsAnswer(chunk_text) ==
    LET \* a numbered line, or a line of moderate length with a capitalised word
        IsImportant(line) ==
            \/ With(RunEnd(line, 1, Digits), LAMBDA d : d >= 1 /\ Ch(line, d + 1) = ".")
            \/ /\ Len(line) > 5 /\ Len(line) < 100
               /\ With(SplitWs(line), LAMBDA words : \E k \in 1..Len(words) : Ch(words[k], 1) \in UpperChars)
    IN  With(Take(SelectSeq(MapStrip(Take(Split(chunk_text, "\n"), 20)), LAMBDA line : IsImportant(line)), 5),
             LAMBDA important_lines :
               IF important_lines = <<>> THEN None ELSE Join(important_lines, "\n"))

\* the keyword branch: the first line that contains the first content word of the question
KeywordAnswer(query_lower, chunk_text) ==
    LET QuestionStopWords == {"was", "ist", "welche", "welcher", "welches", "sind", "der", "die", "das"}

        \* the first line that contains search_word, with the next line when that is a long one
        InLines(lines, search_word) ==
            With({k \in 1..Len(lines) : Contains(Lower(lines[k]), search_word) /\ Len(Strip(lines[k])) > 10},
                 LAMBDA hits :
                   IF hits = {} THEN None
                   ELSE With(Least(hits),
                             LAMBDA idx :
                               IF idx + 1 <= Len(lines) /\ Len(Strip(lines[idx + 1])) > 20
                               THEN Strip(lines[idx]) \o "\n" \o Strip(lines[idx + 1])
                               ELSE Strip(lines[idx])))
    IN  With(SelectSeq(SplitWs(query_lower), LAMBDA w : Len(w) > 3 /\ w \notin QuestionStopWords),
             LAMBDA question_words :
               IF question_words = <<>> THEN None
               ELSE InLines(Split(chunk_text, "\n"), question_words[1]))

\* Python truthiness of an Optional[str]
Truthy(x) == x # None /\ x # ""

_extract_smart_answer(query, chunk_text) ==
    With(_extract_list_answer(query, chunk_text),
         LAMBDA list_answer :
           IF Truthy(list_answer) THEN list_answer
           ELSE With(Lower(query),
                     LAMBDA query_lower :
                       LET In(kw) == Contains(query_lower, kw)
                       IN  FirstOf(<<
                             IF In("wie") /\ (In("erstelle") \/ In("erstellen") \/ In("anlegen") \/ In("anlege"))
                               THEN ProcessAnswer(chunk_text) ELSE None,
                             IF In("was ist") \/ In("was bedeutet")
                               THEN DefinitionAnswer(query_lower, chunk_text) ELSE None,
                             IF In("welche") /\ (In("namen") \/ In("begriffe") \/ In("kapitel"))
                               THEN HeadingsAnswer(chunk_text) ELSE None,
                             KeywordAnswer(query_lower, chunk_text) >>)))

(***************************************************************************)
(* topic_index.py / vector_index.py: rsq_from_hits                         *)
(* Scores are integers in units of 1/10000 (One is the score 1.0), so that *)
(* rounding to three decimals is visible; a hit is [doc, score].           *)
(***************************************************************************)
One == 10000

\* Python: round(x, 3) of x = num/den score units, as a multiple of 10 units
Round3(num, den) == 10 * RoundDiv(num, 10 * den)

\* the margin taken without max(0.0, ...)
rsq_margin_unclamped(hits) ==
    IF hits = <<>> THEN 0
    ELSE LET best   == hits[1].score
             second == IF Len(hits) > 1 THEN hits[2].score ELSE 0
         IN  Max(0, Min(One, Round3(3 * best + (best - second), 4)))

\* TopicIndex.rsq_from_hits
rsq_from_hits(hits) ==
    LET \* max(0.0, min(1.0, x))
        Clamp01(x) == Max(0, Min(One, x))
    IN
    IF hits = <<>> THEN 0
    ELSE LET best   == hits[1].score
             second == IF Len(hits) > 1 THEN hits[2].score ELSE 0
             margin == Max(0, best - second)
         IN  Clamp01(Round3(3 * best + margin, 4))

\* the second score added instead of the margin
rsq_second_rewarded(hits) ==
    IF hits = <<>> THEN 0
    ELSE LET best   == hits[1].score
             second == IF Len(hits) > 1 THEN hits[2].score ELSE 0
         IN  Max(0, Min(One, Round3(3 * best + second, 4)))

\* VectorIndex.rsq_from_hits
VectorIndex_rsq_from_hits(hits) ==
    IF hits = <<>> THEN 0
    ELSE LET best   == hits[1].score
             second == IF Len(hits) > 1 THEN hits[2].score ELSE 0
             margin == Max(0, best - second)
             rsq    == 3 * best + margin
         IN  Max(0, Min(One, Round3(rsq, 4)))

(***************************************************************************)
(* local_llm.py: LocalLLM                                                  *)
(***************************************************************************)
\* os.getenv defaults (the environment variables are unset)
ENV_LLM_MODEL == "qwen2.5:7b"

ENV_LLM_FALLBACK_MODEL == "llama3.2:1b"

ENV_LLM_MODEL_FAST == "qwen2.5:3b"

\* LocalLLM.__init__: a missing (None) argument takes the environment default
LocalLLM(model, fallback_model) ==
    [model |-> IF model = None THEN ENV_LLM_MODEL ELSE model,
     fallback_model |-> IF fallback_model = None THEN ENV_LLM_FALLBACK_MODEL ELSE fallback_model]

\* the timeout LocalLLM.generate chooses from the model name when none is passed
DefaultTimeout(model_to_use, use_fallback) ==
    IF Contains(model_to_use, "8x22b") \/ Contains(model_to_use, "72b") THEN 300
    ELSE IF Contains(model_to_use, "32b") THEN 180
    ELSE IF Contains(model_to_use, "7b") THEN 90
    ELSE IF Contains(model_to_use, "3b") THEN 60
    ELSE IF use_fallback THEN 60
    ELSE 60

\* the request LocalLLM.generate posts to the backend: a frame is one activation
\* [llm, use_fallback, timeout, is_planovo, ctx] of generate, ctx names its caller;
\* reply is how the backend answered, "pending" until it has
BackendCall(frame) ==
    With(IF frame.use_fallback THEN frame.llm.fallback_model ELSE frame.llm.model,
         LAMBDA model_to_use :
           [model |-> model_to_use,
            timeout |-> IF frame.timeout = NoTimeout THEN DefaultTimeout(model_to_use, frame.use_fallback)
                        ELSE frame.timeout,
            system |-> IF frame.is_planovo THEN "support" ELSE "reasoning",
            use_fallback |-> frame.use_fallback,
            ctx |-> frame.ctx,
            reply |-> "pending"])

\* the except clauses of LocalLLM.generate: TRUE when it calls itself with use_fallback=True
RetriesInternally(frame, outcome) ==
    /\ outcome.kind \in {"timeout", "error"}
    /\ ~frame.use_fallback
    /\ frame.llm.fallback_model # frame.llm.model

\* self.generate(prompt, temperature, max_tokens, use_fallback=True): timeout and is_planovo take their defaults
RetryFrame(frame) ==
    [llm |-> frame.llm, use_fallback |-> TRUE, timeout |-> NoTimeout, is_planovo |-> FALSE, ctx |-> frame.ctx]

(***************************************************************************)
(* llm_router.py: LLMRouter                                                *)
(***************************************************************************)
Tiers == {"fast", "standard", "reasoning"}

\* LLMRouter._load_config without a configuration file
DefaultConfig ==
    [fast      |-> [model |-> ENV_LLM_MODEL_FAST, fallback |-> ENV_LLM_FALLBACK_MODEL,
                    max_tokens |-> 150, temperature |-> 1, timeout |-> 10],
     standard  |-> [model |-> ENV_LLM_MODEL, fallback |-> ENV_LLM_FALLBACK_MODEL,
                    max_tokens |-> 400, temperature |-> 2, timeout |-> 30],
     reasoning |-> [model |-> ENV_LLM_MODEL, fallback |-> ENV_LLM_MODEL,
                    max_tokens |-> 600, temperature |-> 3, timeout |-> 60]]

\* LLMRouter._load_config without a configuration file when LLM_MODEL_REASONING names a larger model
ReasoningConfig == [DefaultConfig EXCEPT !.reasoning.model = "qwen2.5:32b"]

\* LLMRouter._initialize_models: one LocalLLM per tier, None for a tier whose construction failed
InitializeModels(model_configs, broken) ==
    [t \in Tiers |-> IF t \in broken THEN NoObject
                     ELSE LocalLLM(model_configs[t].model, model_configs[t].fallback)]

reasoning_keywords == <<"warum", "weshalb", "wieso", "wie funktioniert", "erkläre", "analysiere",
                        "vergleiche", "unterschied", "zusammenhang", "begründ", "schlussfolger">>

(***************************************************************************)
(* The complexity is a Python float. A float is <<n, k>>: the double k     *)
(* units in the last place above the double nearest to n/100.              *)
(***************************************************************************)
\* an addition that loses the weight 0.1
FloatAddWithoutTenth(x, t) == <<x[1] + (IF t = 10 THEN 0 ELSE t), 0>>

\* x + t/100 in double arithmetic, for the partial sums calculate_complexity forms
FloatAdd(x, t) ==
    LET \* the sums that are not the double nearest to the decimal sum
        Inexact ==
            (<<10, 0, 20>> :> <<30, 1>>)   @@ (<<20, 0, 10>> :> <<30, 1>>)   @@
            (<<30, 1, 10>> :> <<40, 0>>)   @@ (<<30, 1, 20>> :> <<50, 0>>)   @@
            (<<40, 0, 20>> :> <<60, 1>>)   @@ (<<60, 1, 10>> :> <<70, 1>>)   @@
            (<<60, 1, 20>> :> <<80, 0>>)   @@ (<<70, 0, 10>> :> <<80, -1>>)  @@
            (<<70, 0, 20>> :> <<90, -1>>)  @@ (<<70, 1, 10>> :> <<80, 0>>)   @@
            (<<70, 1, 20>> :> <<90, 1>>)   @@ (<<80, -1, 10>> :> <<90, -1>>) @@
            (<<80, -1, 20>> :> <<100, 0>>) @@ (<<90, -1, 10>> :> <<100, -1>>) @@
            (<<90, -1, 20>> :> <<110, -1>>) @@ (<<90, 1, 10>> :> <<100, 1>>) @@
            (<<100, -1, 10>> :> <<110, -1>>) @@ (<<110, -1, 10>> :> <<120, 0>>)
    IN  IF t = 0 THEN x
        ELSE IF <<x[1], x[2], t>> \in DOMAIN Inexact THEN Inexact[<<x[1], x[2], t>>]
        ELSE <<x[1] + t, 0>>

\* x < h/100 for a float x
Below(x, h) == x[1] < h \/ (x[1] = h /\ x[2] < 0)

\* LLMRouter.calculate_complexity: the signals are added in the order of the code
calculate_complexity(query, context_chunks, rsq) ==
    LET \* sum(len(chunk.get("text", "")) for chunk in context_chunks)
        RECURSIVE TotalLength(_)
        TotalLength(chunks) ==
            IF chunks = <<>> THEN 0 ELSE Len(chunks[1].text) + TotalLength(Tail(chunks))

        LengthPart(query_length) == IF query_length > 15 THEN 20 ELSE IF query_length > 8 THEN 10 ELSE 0

        KeywordPart(query_lower) ==
            IF \E k \in 1..Len(reasoning_keywords) : Contains(query_lower, reasoning_keywords[k]) THEN 30 ELSE 0

        ChunksPart(num_chunks) == IF num_chunks > 3 THEN 20 ELSE IF num_chunks > 1 THEN 10 ELSE 0

        ContextPart(total_context_length) ==
            IF total_context_length > 2000 THEN 20 ELSE IF total_context_length > 1000 THEN 10 ELSE 0

        RsqPart == IF 10 * rsq < 3 * One THEN 20 ELSE IF 10 * rsq < 5 * One THEN 10 ELSE 0

        ConnectivePart(query_lower) ==
            IF Contains(query_lower, " und ") \/ Contains(query_lower, " sowie ") \/ Contains(query_lower, " oder ")
            THEN 10 ELSE 0

        \* min(complexity, 1.0)
        AtMostOne(complexity) == IF Below(complexity, 100) THEN complexity ELSE <<100, 0>>
    IN  With(Lower(query),
             LAMBDA query_lower :
               AtMostOne(
                 FloatAdd(FloatAdd(FloatAdd(FloatAdd(FloatAdd(FloatAdd(<<0, 0>>,
                   LengthPart(Len(SplitWs(query)))),
                   KeywordPart(query_lower)),
                   ChunksPart(Len(context_chunks))),
                   ContextPart(TotalLength(context_chunks))),
                   RsqPart),
                   ConnectivePart(query_lower))))

\* the intervals closed on the right: a complexity of exactly 0.3 is fast, of exactly 0.7 standard
TierOfClosed(complexity) ==
    IF ~Below(complexity, 30) /\ complexity # <<30, 0>>
      THEN (IF ~Below(complexity, 70) /\ complexity # <<70, 0>> THEN "reasoning" ELSE "standard")
    ELSE "fast"

\* the tier LLMRouter.route selects for a complexity
TierOf(complexity) ==
    IF Below(complexity, 30) THEN "fast" ELSE IF Below(complexity, 70) THEN "standard" ELSE "reasoning"

\* route with the configuration of the selected tier kept when the handle of another tier is returned
route_keeps_config(rt, query, context_chunks, rsq) ==
    With(TierOf(calculate_complexity(query, context_chunks, rsq)),
         LAMBDA model_type :
           IF rt.models[model_type] # NoObject THEN <<rt.models[model_type], rt.model_configs[model_type]>>
           ELSE IF rt.models["standard"] # NoObject THEN <<rt.models["standard"], rt.model_configs[model_type]>>
           ELSE <<rt.models["fast"], rt.model_configs[model_type]>>)

\* LLMRouter.route: <<llm, config>>
route(rt, query, context_chunks, rsq) ==
    With(TierOf(calculate_complexity(query, context_chunks, rsq)),
         LAMBDA model_type :
           IF rt.models[model_type] # NoObject THEN <<rt.models[model_type], rt.model_configs[model_type]>>
           ELSE IF rt.models["standard"] # NoObject THEN <<rt.models["standard"], rt.model_configs["standard"]>>
           ELSE <<rt.models["fast"], rt.model_configs["fast"]>>)

\* the first call of LLMRouter.generate: llm.generate(..., use_fallback=False, timeout=config_timeout)
RouterPrimaryFrame(llm, config, is_planovo) ==
    [llm |-> llm, use_fallback |-> FALSE, timeout |-> config.timeout, is_planovo |-> is_planovo,
     ctx |-> "router_primary"]

\* config.get("fallback") and config.get("fallback") != config.get("model")
RouterHasFallback(config) == config.fallback # None /\ config.fallback # "" /\ config.fallback # config.model

\* 70% of the configured timeout, without the floor of 60
FallbackTimeoutNoFloor(config_timeout) ==
    IF config_timeout # NoTimeout THEN (config_timeout * 7) \div 10 ELSE 60

\* max(int(config_timeout * 0.7), 60), 60 without a configured timeout
FallbackTimeout(config_timeout) ==
    IF config_timeout # NoTimeout THEN Max((config_timeout * 7) \div 10, 60) ELSE 60

\* the fallback call of LLMRouter.generate: LocalLLM(model=config["fallback"]).generate(..., use_fallback=True)
RouterFallbackFrame(config, is_planovo) ==
    [llm |-> LocalLLM(config.fallback, None), use_fallback |-> TRUE,
     timeout |-> FallbackTimeout(config.timeout), is_planovo |-> is_planovo, ctx |-> "router_fallback"]

(***************************************************************************)
(* Inputs: documents, queries, tenants, similarity scores, backend replies *)
(***************************************************************************)
Documents ==
    LET \* sections as doc_loader produces them: the text is the title line followed by the body
        Section(id, title, body) == [id |-> id, title |-> title, text |-> title \o "\n" \o body]
    IN
    LET InvoiceDoc ==
            << Section("rechnung", "RECHNUNG",
                       "Testwerk Solutions\nRechnungsnummer: RE-2025-001\nGesamtbetrag: 119,00 €\nZahlbar bis zum 01.02.2025 ohne Abzug"),
               Section("preise", "PREISE", "Das Abo kostet 10 Euro im Monat. Es ist monatlich kündbar."),
               Section("kontakt", "KONTAKT", "Sie erreichen uns per Mail unter info@testwerk.de.") >>

        SupportDoc == << Section("projekt", "PROJEKT", "FELD: Name\nPflicht: ja") >>

        TermsDoc ==
            LET \* more than 300 characters in one sentence
                LongSentence ==
                    "Die Lieferung erfolgt innerhalb von vierzehn Werktagen nach Eingang der Zahlung "
                    \o "und nach schriftlicher Bestätigung durch den Auftraggeber "
                    \o "und nach schriftlicher Bestätigung durch den Auftraggeber "
                    \o "und nach schriftlicher Bestätigung durch den Auftraggeber "
                    \o "und nach schriftlicher Bestätigung durch den Auftraggeber "
                    \o "an die angegebene Lieferadresse"
            IN  << Section("agb", "AGB", LongSentence) >>

        \* two sections of three words each
        TariffDoc ==
            << Section("tarif", "TARIF", "Abo monatlich"),
               Section("laufzeit", "LAUFZEIT", "Vertrag zwei Jahre") >>

        \* a file the loader gets no section from
        UnreadableDoc == << >>
    IN  [invoice |-> InvoiceDoc, support |-> SupportDoc, terms |-> TermsDoc, tariff |-> TariffDoc,
         unreadable |-> UnreadableDoc]

\* the section with the id source_id; ids are unique over the documents
SectionOf(source_id) ==
    CHOOSE s \in UNION {{Documents[d][i] : i \in 1..Len(Documents[d])} : d \in DOMAIN Documents} : s.id = source_id

\* a request keeps the hits of index.search with each section held by its id
Kept(hits) == [i \in 1..Len(hits) |-> [score |-> hits[i].score, doc |-> hits[i].doc.id]]

\* the hits of the request r as index.search returned them
Hits(r) == [i \in 1..Len(r.hits) |-> [score |-> r.hits[i].score, doc |-> SectionOf(r.hits[i].doc)]]

\* tenants that upload, and the documents each of them uploads
Tenants == {"Planovo", "acme"}

UploadsOf(company_id) == IF company_id = "Planovo" THEN {"support", "unreadable"} ELSE {"invoice", "terms"}

\* the index DocumentManager builds for an upload: a VectorIndex, or a TopicIndex when that cannot be built
KindsOf(document) == IF document = "terms" THEN {"vector"} ELSE {"topic"}

\* company ids a chat request may carry
RequestCompanyIds == Tenants \cup {None, ""}

Queries == {" Hallo ", "Wie hoch ist der Gesamtbetrag?", "Warum und wieso kostet das Abo Geld?", "zzz",
            "Was kostet das Abo?"}

\* top_k ranges over 1..MaxTopK (ChatIn allows 1..5)
MaxTopK == 1

\* texts the generation backend may answer with, besides repeating the top section
ModelTexts == {"", " FRAGE: Abo\nDas Abo kostet 10 Euro. "}

FailureKinds == {"timeout", "connection", "error"}

(***************************************************************************)
(* The extraction tiers, the sentence fallback and the cleaning filter,    *)
(* tabulated once over the queries and texts above.                        *)
(***************************************************************************)
KnownQueries == {Strip(query) : query \in Queries}

KnownTexts == UNION {{Documents[d][i].text : i \in 1..Len(Documents[d])} : d \in DOMAIN Documents}

SimpleAnswers == [q \in KnownQueries, t \in KnownTexts |-> _extract_simple_answer(q, t)]

SmartAnswers == [q \in KnownQueries, t \in KnownTexts |-> _extract_smart_answer(q, t)]

\* the sentence fallback: first three sentences of more than 20 characters, else the first 200 characters
ChunkFallbacks == [t \in KnownTexts |-> format_chunk_fallback(t)]

\* [s.strip() for s in re.split(r'[.!?]+', chunk_text) if len(s.strip()) > 20][:3]
ChunkSentences == [t \in KnownTexts |-> RelevantSentences(t)]

\* the texts the filter is applied to: replies of the backend, extraction results, sections,
\* sentence fallbacks and joined sentences
CleanInputs ==
    {Strip(t) : t \in ModelTexts \cup KnownTexts} \cup KnownTexts
      \cup {SimpleAnswers[k] : k \in DOMAIN SimpleAnswers} \cup {SmartAnswers[k] : k \in DOMAIN SmartAnswers}
      \cup {ChunkFallbacks[t] : t \in KnownTexts}
      \cup {Join(ChunkSentences[t], ". ") \o "." : t \in KnownTexts}

CleanAnswers == [text \in CleanInputs, company_id \in Tenants |-> clean_answer(text, company_id)]

\* the tables as one value; a handler takes it once and calls a method m(x) as tab.m[x]
Tabulated ==
    [_extract_simple_answer |-> SimpleAnswers,
     _extract_smart_answer  |-> SmartAnswers,
     clean_answer           |-> CleanAnswers,
     format_chunk_fallback  |-> ChunkFallbacks,
     relevant_sentences     |-> ChunkSentences]

(***************************************************************************)
(* rag_engine.py: RAGEngine.generate_answer                                *)
(* An engine is [index, use_local, use_router]; generate_answer is split   *)
(* at its calls of the generation backend: the part before the first call, *)
(* and one continuation per caller of LocalLLM.generate.                   *)
(***************************************************************************)
\* RAGEngine.__init__
RAGEngine(index, use_local, llm_router) ==
    [index |-> index, use_local |-> use_local, use_router |-> llm_router # NoObject]

\* the legacy handles RAGEngine.__init__ builds without a router: LocalLLM() and the fast model
LegacyLLM == LocalLLM(None, None)

LegacyFastLLM == LocalLLM(ENV_LLM_MODEL_FAST, ENV_LLM_FALLBACK_MODEL)

simple_fact_keywords == <<"gesamtbetrag", "nettobetrag", "rechnungsnummer", "datum", "fällig",
                          "firma", "unternehmen", "name">>

simple_keywords == <<"wie hoch", "betrag", "preis", "kosten", "datum", "wann", "fällig", "rechnungsnummer",
                     "firma", "unternehmen", "name", "skonto", "spare", "rabatt", "wie viel", "gesamtbetrag">>

\* any(kw in query_lower for kw in keywords)
AnyKeyword(query, keywords) ==
    With(Lower(query), LAMBDA query_lower : \E k \in 1..Len(keywords) : Contains(query_lower, keywords[k]))

\* the fact-tier shortcut at the head of generate_answer: the answer, or None to go on to generation
SimpleFactShortcut(self, query, chunk_text, company_id) ==
    With(IF AnyKeyword(query, simple_fact_keywords) THEN self._extract_simple_answer[query, chunk_text] ELSE None,
         LAMBDA extracted : IF Truthy(extracted) THEN self.clean_answer[extracted, company_id] ELSE None)

\* generate_answer: context_parts, one entry f"{title}:\n{text}" per context chunk
ContextParts(context_chunks) ==
    [i \in 1..Len(context_chunks) |-> context_chunks[i].title \o ":\n" \o context_chunks[i].text]

\* fact tier, then smart tier, each cleaned; None when neither yields an answer
ExtractedOrNone(self, query, chunk_text, company_id) ==
    With(self._extract_simple_answer[query, chunk_text],
         LAMBDA extracted :
           IF Truthy(extracted) THEN self.clean_answer[extracted, company_id]
           ELSE With(self._extract_smart_answer[query, chunk_text],
                     LAMBDA smart_extracted :
                       IF Truthy(smart_extracted) THEN self.clean_answer[smart_extracted, company_id]
                       ELSE None))

\* is_identical: answer.strip() == chunk_text.strip()
IsIdentical(answer, chunk_text) == Strip(answer) = Strip(chunk_text)

\* the exact-identity check after a router answer or a legacy fast-path answer
IdenticalPost(self, answer, query, chunk_text, company_id) ==
    IF IsIdentical(answer, chunk_text)
    THEN With(ExtractedOrNone(self, query, chunk_text, company_id), LAMBDA e : IF e # None THEN e ELSE answer)
    ELSE answer

\* router path: clean_answer, then the exact-identity check
RouterPost(self, answer, query, chunk_text, company_id) ==
    IdenticalPost(self, self.clean_answer[answer, company_id], query, chunk_text, company_id)

\* legacy complex path: clean_answer, then the identical-or-substring check
MainPost(self, raw, query, chunk_text, company_id) ==
    With(self.clean_answer[raw, company_id],
         LAMBDA answer :
           With(Strip(answer),
                LAMBDA answer_stripped :
                  With(Strip(chunk_text),
                       LAMBDA chunk_stripped :
                         IF \/ answer_stripped = chunk_stripped
                            \/ Contains(chunk_stripped, answer_stripped)
                            \/ Contains(answer_stripped, chunk_stripped)
                         THEN With(ExtractedOrNone(self, query, chunk_text, company_id),
                                   LAMBDA e : IF e # None THEN e ELSE answer)
                         ELSE answer)))

\* except branch of the router path: extraction, then sentences, then the first 200 characters
RouterExcept(self, query, chunk_text, company_id) ==
    With(ExtractedOrNone(self, query, chunk_text, company_id),
         LAMBDA e :
           IF e # None THEN e ELSE self.clean_answer[self.format_chunk_fallback[chunk_text], company_id])

\* except branch of the legacy complex path: extraction, then sentences, then the whole top section
MainExcept(self, query, chunk_text, company_id) ==
    With(ExtractedOrNone(self, query, chunk_text, company_id),
         LAMBDA e :
           IF e # None THEN e
           ELSE With(self.relevant_sentences[chunk_text],
                     LAMBDA relevant_sentences :
                       IF relevant_sentences # <<>>
                       THEN self.clean_answer[Join(relevant_sentences, ". ") \o ".", company_id]
                       ELSE self.clean_answer[chunk_text, company_id]))

\* generate_answer up to its first backend call: [answer] when it returns without one,
\* [frame] for the call it issues, [raised] when the router has no model handle
\* (the RuntimeError is raised inside the try of the router path)
GenerateStart(self, engine, rt, query, context_chunks, rsq, company_id) ==
    With(context_chunks[1].text,
         LAMBDA chunk_text :
           With(SimpleFactShortcut(self, query, chunk_text, company_id),
                LAMBDA shortcut :
                  IF shortcut # None THEN [answer |-> shortcut]
                  ELSE IF engine.use_router /\ engine.use_local
                    THEN With(route(rt, query, context_chunks, rsq),
                              LAMBDA r :
                                IF r[1] = NoObject
                                THEN [answer |-> RouterExcept(self, query, chunk_text, company_id)]
                                ELSE [frame |-> RouterPrimaryFrame(r[1], r[2], IsPlanovo(company_id))])
                  ELSE IF engine.use_local /\ ~engine.use_router
                    THEN [frame |-> [llm |-> IF AnyKeyword(query, simple_keywords) /\ 10 * rsq > 3 * One
                                             THEN LegacyFastLLM ELSE LegacyLLM,
                                     use_fallback |-> FALSE, timeout |-> NoTimeout,
                                     is_planovo |-> IsPlanovo(company_id),
                                     ctx |-> IF AnyKeyword(query, simple_keywords) /\ 10 * rsq > 3 * One
                                             THEN "legacy_fast" ELSE "legacy_main"]]
                  ELSE [answer |-> self.clean_answer[chunk_text, company_id]]))

\* self.llm.generate(prompt, temperature=0.2, max_tokens=400, is_planovo=is_planovo) after the fast model failed
FastMainFrame(is_planovo) ==
    [llm |-> LegacyLLM, use_fallback |-> FALSE, timeout |-> NoTimeout, is_planovo |-> is_planovo,
     ctx |-> "legacy_fast_main"]

(***************************************************************************)
(* chat_handler.py: process_chat_query                                     *)
(***************************************************************************)
GreetingReply == "Hallo! Womit kann ich Ihnen helfen?"

NoHitsReplyEmpty == ""

NoHitsReply == "Dazu habe ich keine Informationen gefunden. Können Sie die Frage anders formulieren? Oder sagen Sie mir, wobei ich Ihnen helfen kann."

LowRelevanceReply == "Dazu habe ich leider keine Informationen. Können Sie die Frage anders formulieren? Oder sagen Sie mir, wobei ich Ihnen konkret helfen kann."

\* rsq < 0.04
LowRelevanceBelow004(rsq) == 100 * rsq < 4 * One

\* rsq < 0.05
LowRelevance(rsq) == 100 * rsq < 5 * One

search_top_k(top_k) == Min(top_k + 1, 5)

\* the extraction fallback shared by the except branch and the branch without generation:
\* [answer, mode]; fast_mode names a successful extraction, slow_mode the sentence fallback
ExtractionFallback(tab, q, chunk_text, rsq, company_id, fast_mode, slow_mode) ==
    With(tab._extract_simple_answer[q, chunk_text],
         LAMBDA simple :
           With(tab._extract_smart_answer[q, chunk_text],
                LAMBDA smart :
                  With(IF Truthy(simple) THEN simple ELSE smart,
                       LAMBDA extracted :
                         IF Truthy(extracted) /\ extracted # chunk_text /\ 2 * Len(extracted) < Len(chunk_text)
                           THEN [answer |-> extracted, mode |-> fast_mode]
                         ELSE IF LowRelevance(rsq)
                           THEN [answer |-> LowRelevanceReply, mode |-> "low_relevance"]
                         ELSE With(IF Truthy(smart) /\ Len(smart) > 10 THEN smart
                                   ELSE tab.format_chunk_fallback[chunk_text],
                                   LAMBDA text :
                                     [answer |-> IF IsPlanovo(company_id) THEN tab.clean_answer[text, company_id]
                                                 ELSE text,
                                      mode |-> slow_mode]))))

\* return_sources
ReturnSources(hits, company_id) ==
    LET \* round(h.score, 3)
        RoundScore(score) == Round3(score, 1)
    IN
    IF IsPlanovo(company_id) THEN <<>>
    ELSE [i \in 1..Len(hits) |-> [title |-> hits[i].doc.title, score |-> RoundScore(hits[i].score),
                                  source_id |-> hits[i].doc.id]]

\* the dict process_chat_query returns after the hit branch
Answer(answer, mode, hits, rsq, company_id) ==
    [answer |-> answer, topic |-> hits[1].doc.title, rsq |-> rsq, mode |-> mode,
     sources |-> ReturnSources(hits, company_id)]

(***************************************************************************)
(* topic_index.py / vector_index.py: search                                *)
(* An index is [kind, document]; its docs are Documents[document].         *)
(***************************************************************************)
\* the double next above 1.0 (1.0000000000000002): the cosine similarity is a dot product of two
\* normalised float vectors, which for equal vectors rounds to 1.0 or to the next double
AboveOne == One + 1

\* TopicIndex.search with the similarities sims; o is np.argsort(-sims), whose default sort is
\* not stable: equal similarities come in any order
TopicSearch(docs, sims, o, top_k) ==
    [p \in 1..Min(top_k, Len(docs)) |-> [doc |-> docs[o[p]], score |-> sims[o[p]]]]

\* VectorIndex.search for a query result in the order o
VectorSearch(docs, dists, o, top_k) ==
    LET \* max(0.0, 1.0 - min(1.0, distance))
        Similarity(distance) == Max(0, One - Min(One, distance))
    IN
    [p \in 1..Min(top_k, Len(docs)) |-> [doc |-> docs[o[p]], score |-> Similarity(dists[o[p]])]]

\* every hit list index.search(query, top_k) may return; a vector search whose queries both fail
\* returns []
SearchResults(index, query, top_k) ==
    LET \* cosine similarities the TF-IDF index may report for a query with words, in score units
        ScoreSet == {600, 8004}

        \* distances the vector store may report, in score units
        DistanceSet == {1996, 9400, 12500, 15000}

        DocsOf(index1) == Documents[index1.document]

        \* the similarities of the sections: 0 for a query without a word, 1.0 or the next double
        \* for a query that is the text of the section
        SimsOf(docs) ==
            LET Blank == SplitWs(query) = <<>>
                Same(i) == Len(query) = Len(docs[i].text) /\ Lower(query) = Lower(docs[i].text)
            IN  {sims \in [1..Len(docs) -> ScoreSet \cup {0, One, AboveOne}] :
                   \A i \in 1..Len(docs) :
                     sims[i] \in (IF Blank THEN {0} ELSE IF Same(i) THEN {One, AboveOne} ELSE ScoreSet)}

        \* orders in which n entries come back by ascending key, equal keys in any order
        NearestOrders(keys) ==
            LET n == Len(keys)
            IN  {o \in [1..n -> 1..n] :
                    /\ \A a, b \in 1..n : a # b => o[a] # o[b]
                    /\ \A a \in 1..n - 1 : keys[o[a]] <= keys[o[a + 1]]}
    IN
    LET docs == DocsOf(index)
        n == Len(docs)
    IN  IF index.kind = "topic"
        THEN UNION {{TopicSearch(docs, sims, o, top_k) : o \in NearestOrders([i \in 1..n |-> -sims[i]])} :
                      sims \in SimsOf(docs)}
        ELSE {<<>>} \cup UNION {{VectorSearch(docs, dists, o, top_k) : o \in NearestOrders(dists)} :
                                 dists \in [1..n -> DistanceSet]}

(***************************************************************************)
(* State                                                                   *)
(***************************************************************************)
VARIABLES
    indices,           \* doc_manager.indices: company_id -> index
    storage_dir,       \* doc_manager.storage_dir: company_id -> the document last written for it
    rag_engines,       \* main.rag_engines: company_id -> engine
    llm_router,        \* main.llm_router: [model_configs, models], or NoObject in legacy mode
    USE_LOCAL_MODELS,  \* the environment switch read when an engine is built
    req,               \* the request being served or served last, with the locals of its handler;
                       \* req.op is the function that answers it: an endpoint that passed its own
                       \* checks hands the request over to process_chat_query
    pending,           \* the activation the handler of req waits for: LocalLLM.generate waiting for
                       \* the backend or the RAGEngine constructor, or NoObject
    calls,             \* the generation calls issued for req, in order
    response           \* what the handler of req returned or raised, NoObject while it runs

vars == <<indices, storage_dir, rag_engines, llm_router, USE_LOCAL_MODELS, req, pending, calls, response>>

EmptyDict == [k \in {} |-> None]

\* dict[key] = value
DictSet(dict, key, value) == [k \in DOMAIN dict \cup {key} |-> IF k = key THEN value ELSE dict[k]]

\* dict.pop(key, None)
DictPop(dict, key) == [k \in DOMAIN dict \ {key} |-> dict[k]]

\* deployments: router mode, legacy mode (USE_LLM_ROUTER off), local models switched off,
\* and a router that has no model handle at all
Deployments ==
    LET \* LLMRouter() with the default configuration; broken are the tiers whose LocalLLM could not be built
        Router(broken) == [model_configs |-> DefaultConfig, models |-> InitializeModels(DefaultConfig, broken)]
    IN
    { [llm_router |-> Router({}), use_local |-> TRUE],
      [llm_router |-> NoObject, use_local |-> TRUE],
      [llm_router |-> Router({}), use_local |-> FALSE],
      [llm_router |-> Router(Tiers), use_local |-> TRUE] }

\* what DocumentManager() reloads from its storage directory at start-up
StoredIndices ==
    { EmptyDict,
      [k \in {"Planovo"} |-> [kind |-> "topic", document |-> "support"]],
      [k \in {"acme"} |-> [kind |-> "vector", document |-> "terms"]] }

NoRequest == [op |-> "none"]

Init ==
    /\ indices \in StoredIndices
    /\ storage_dir = [company_id \in DOMAIN indices |-> indices[company_id].document]
    /\ rag_engines = EmptyDict
    /\ \E d \in Deployments : llm_router = d.llm_router /\ USE_LOCAL_MODELS = d.use_local
    /\ req = NoRequest
    /\ pending = NoObject
    /\ calls = <<>>
    /\ response = NoObject

\* DocumentManager.company_exists
company_exists(company_id) == company_id \in DOMAIN indices

\* an index looked up without regard to the tenant: that of another tenant when there is one
get_index_unscoped(company_id) ==
    indices[CHOOSE c \in DOMAIN indices : c # company_id \/ DOMAIN indices = {company_id}]

\* DocumentManager.get_index for a company_id that has an index
get_index(company_id) == indices[company_id]

\* every exception answered as an unhandled one
HTTPExceptionUnhandled(status) == [error |-> 500]

\* raise HTTPException(status); an exception no handler catches is answered with status 500
HTTPException(status) == [error |-> status]

\* the chat request as its handler holds it: arguments, then the locals set as it proceeds
ChatRequest(endpoint, query, company_id, top_k, use_rag) ==
    [op |-> endpoint, query |-> query, q |-> Strip(query), company_id |-> company_id,
     top_k |-> top_k, use_rag |-> use_rag,
     searched |-> FALSE, built |-> FALSE, extracted |-> FALSE, hits |-> <<>>, rsq |-> 0]

(***************************************************************************)
(* Continuations of generate_answer after a backend reply                  *)
(***************************************************************************)
\* the config LLMRouter.generate holds for the request r
ConfigOf(r) == route(llm_router, r.q, [i \in 1..Len(r.hits) |-> Hits(r)[i].doc], r.rsq)[2]

\* LocalLLM.generate returned answer to the caller ctx: [answer, mode] of the request
Returned(self, ctx, answer, r) ==
    With(Hits(r)[1].doc.text,
         LAMBDA chunk_text :
           [mode |-> "rag",
            answer |->
              IF ctx \in {"router_primary", "router_fallback"}
                THEN RouterPost(self, answer, r.q, chunk_text, r.company_id)
              ELSE IF ctx = "legacy_fast"
                THEN IdenticalPost(self, answer, r.q, chunk_text, r.company_id)
              ELSE IF ctx = "legacy_fast_main"
                THEN RouterPost(self, answer, r.q, chunk_text, r.company_id)
              ELSE MainPost(self, answer, r.q, chunk_text, r.company_id)])

\* LocalLLM.generate raised to the caller ctx: [frame] for the next call, [answer, mode] when
\* generate_answer recovers, [raised] when the exception leaves generate_answer
Raised(self, ctx, r) ==
    IF ctx \in {"router_primary", "router_fallback"}
      THEN With(ConfigOf(r),
                LAMBDA config :
                  IF ctx = "router_primary" /\ RouterHasFallback(config)
                  THEN [frame |-> RouterFallbackFrame(config, IsPlanovo(r.company_id))]
                  ELSE [answer |-> RouterExcept(self, r.q, Hits(r)[1].doc.text, r.company_id), mode |-> "rag"])
    ELSE IF ctx = "legacy_fast"
      THEN [frame |-> FastMainFrame(IsPlanovo(r.company_id))]
    ELSE IF ctx = "legacy_fast_main"
      THEN [raised |-> "generate_answer"]
    ELSE [answer |-> MainExcept(self, r.q, Hits(r)[1].doc.text, r.company_id), mode |-> "rag"]

\* LocalLLM.generate on the reply outcome of the backend to the call of frame
AfterReply(self, frame, outcome, r) ==
    IF outcome.kind = "ok" THEN Returned(self, frame.ctx, Strip(outcome.text), r)
    ELSE IF RetriesInternally(frame, outcome) THEN [frame |-> RetryFrame(frame)]
    ELSE Raised(self, frame.ctx, r)

\* process_chat_query without its except branch
Unrecovered(tab, res, r) == res

\* the except branch of process_chat_query around generate_answer
Recovered(tab, res, r) ==
    IF "raised" \in DOMAIN res
      THEN ExtractionFallback(tab, r.q, Hits(r)[1].doc.text, r.rsq, r.company_id,
                              "retrieval_fallback", "retrieval_fallback")
    ELSE res

\* TRUE when the step that ended with res ran an extraction tier
ExtractsAfterReply(self, frame, outcome, r, res) ==
    /\ "frame" \notin DOMAIN res
    /\ \/ outcome.kind # "ok"
       \/ With(Strip(outcome.text),
               LAMBDA answer :
                 With(Hits(r)[1].doc.text,
                      LAMBDA chunk_text :
                        \/ /\ frame.ctx \in {"router_primary", "router_fallback", "legacy_fast_main"}
                           /\ IsIdentical(self.clean_answer[answer, r.company_id], chunk_text)
                        \/ /\ frame.ctx = "legacy_fast"
                           /\ IsIdentical(answer, chunk_text)
                        \/ /\ frame.ctx = "legacy_main"
                           /\ With(Strip(self.clean_answer[answer, r.company_id]),
                                   LAMBDA a : Contains(Strip(chunk_text), a) \/ Contains(a, Strip(chunk_text)))))

(***************************************************************************)
(* Actions                                                                 *)
(***************************************************************************)
\* the handler returns or raises result
Finish(r, result) ==
    /\ req' = r
    /\ response' = result
    /\ pending' = NoObject

\* generate_answer issues the backend call of frame and waits for the reply
Issue(r, frame) ==
    /\ req' = r
    /\ response' = NoObject
    /\ pending' = frame

\* process_chat_query from index.search on: the request r0 searches index and answers with rag_engine
Retrieve(tab, r0, index, rag_engine) ==
    \E hits \in SearchResults(index, r0.q, search_top_k(r0.top_k)) :
    \E rsq \in {IF index.kind = "topic" THEN rsq_from_hits(hits) ELSE VectorIndex_rsq_from_hits(hits)} :
    \E context_chunks \in {[i \in 1..Len(hits) |-> hits[i].doc]} :
    \E r1 \in {[r0 EXCEPT !.searched = TRUE, !.hits = Kept(hits), !.rsq = rsq]} :
      IF context_chunks = <<>>
        THEN /\ Finish(r1, [answer |-> NoHitsReply, rsq |-> rsq, mode |-> "fallback"])
             /\ calls' = <<>>
      ELSE IF r0.use_rag
        THEN \E g \in {GenerateStart(tab, rag_engine, llm_router, r0.q, context_chunks, rsq,
                                     r0.company_id)} :
               IF "frame" \in DOMAIN g
                 THEN /\ Issue([r1 EXCEPT !.extracted = AnyKeyword(r0.q, simple_fact_keywords)],
                               g.frame)
                      /\ calls' = <<BackendCall(g.frame)>>
                 ELSE /\ Finish([r1 EXCEPT !.extracted = TRUE],
                                Answer(g.answer, "rag", hits, rsq, r0.company_id))
                      /\ calls' = <<>>
      ELSE \E f \in {ExtractionFallback(tab, r0.q, context_chunks[1].text, rsq, r0.company_id,
                                        "retrieval_fast", "retrieval")} :
             /\ Finish([r1 EXCEPT !.extracted = TRUE],
                       Answer(f.answer, f.mode, hits, rsq, r0.company_id))
             /\ calls' = <<>>

\* the activation of RAGEngine(index, ...) that process_chat_query waits for
ConstructFrame(index) == [ctx |-> "RAGEngine", index |-> index]

\* process_chat_query(query, ..., company_id, top_k, use_rag), entered through endpoint; with no
\* engine cached for the tenant it constructs one, and other handlers run meanwhile
process_chat_query(tab, query, company_id, top_k, use_rag) ==
    \E r0 \in {ChatRequest("process_chat_query", query, company_id, top_k, use_rag)} :
      IF is_greeting(r0.q)
        THEN /\ Finish(r0, [answer |-> GreetingReply, mode |-> "greeting"])
             /\ calls' = <<>>
             /\ UNCHANGED rag_engines
      ELSE IF ~Truthy(company_id)
        THEN /\ Finish(r0, HTTPException(400))
             /\ calls' = <<>>
             /\ UNCHANGED rag_engines
      ELSE IF ~company_exists(company_id)
        THEN /\ Finish(r0, HTTPException(404))
             /\ calls' = <<>>
             /\ UNCHANGED rag_engines
      ELSE \E index \in {get_index(company_id)} :
             IF company_id \in DOMAIN rag_engines
               THEN /\ Retrieve(tab, r0, index, rag_engines[company_id])
                    /\ UNCHANGED rag_engines
               ELSE /\ Issue([r0 EXCEPT !.built = TRUE], ConstructFrame(index))
                    /\ calls' = <<>>
                    /\ UNCHANGED rag_engines

\* a caller invokes process_chat_query directly
ProcessChatQuery ==
    /\ req = NoRequest
    /\ \E query \in Queries, company_id \in RequestCompanyIds, top_k \in 1..MaxTopK, use_rag \in BOOLEAN :
         process_chat_query(Tabulated, query, company_id, top_k, use_rag)
    /\ UNCHANGED <<indices, storage_dir, llm_router, USE_LOCAL_MODELS>>

\* POST /chat?company_id=...
Chat ==
    /\ req = NoRequest
    /\ \E message \in Queries, company_id \in RequestCompanyIds \ {None}, top_k \in 1..MaxTopK, use_rag \in BOOLEAN :
         IF ~Truthy(company_id)
           THEN /\ Finish(ChatRequest("chat", message, company_id, top_k, use_rag), HTTPException(400))
                /\ calls' = <<>>
                /\ UNCHANGED rag_engines
         ELSE IF ~company_exists(company_id)
           THEN /\ Finish(ChatRequest("chat", message, company_id, top_k, use_rag), HTTPException(404))
                /\ calls' = <<>>
                /\ UNCHANGED rag_engines
         ELSE process_chat_query(Tabulated, message, company_id, top_k, use_rag)
    /\ UNCHANGED <<indices, storage_dir, llm_router, USE_LOCAL_MODELS>>

\* POST /api/companies/{company_id}/chat
ChatWithCompany ==
    /\ req = NoRequest
    /\ \E message \in Queries, company_id \in Tenants, top_k \in 1..MaxTopK, use_rag \in BOOLEAN :
         IF ~company_exists(company_id)
           THEN /\ Finish(ChatRequest("chat_with_company", message, company_id, top_k, use_rag),
                          HTTPException(404))
                /\ calls' = <<>>
                /\ UNCHANGED rag_engines
         ELSE process_chat_query(Tabulated, message, company_id, top_k, use_rag)
    /\ UNCHANGED <<indices, storage_dir, llm_router, USE_LOCAL_MODELS>>

\* RAGEngine(...) returns: rag_engines[company_id] = rag_engine, and the handler goes on with the
\* index it fetched before
EngineConstructed ==
    /\ pending # NoObject
    /\ pending.ctx = "RAGEngine"
    /\ \E rag_engine \in {RAGEngine(pending.index, USE_LOCAL_MODELS, llm_router)} :
         /\ rag_engines' = DictSet(rag_engines, req.company_id, rag_engine)
         /\ Retrieve(Tabulated, req, pending.index, rag_engine)
    /\ UNCHANGED <<indices, storage_dir, llm_router, USE_LOCAL_MODELS>>

\* the backend answers the pending call, or the call fails; LocalLLM.generate and its callers go on
BackendReply ==
    LET \* replies the backend may give to the pending call
        Outcomes ==
            {[kind |-> "ok", text |-> t] : t \in ModelTexts \cup {Hits(req)[1].doc.text}}
              \cup {[kind |-> k] : k \in FailureKinds}
    IN
    /\ pending # NoObject
    /\ pending.ctx # "RAGEngine"
    /\ \E tab \in {Tabulated} :
       \E outcome \in Outcomes :
       \E res \in {Recovered(tab, AfterReply(tab, pending, outcome, req), req)} :
       \E r \in {[req EXCEPT !.extracted = @ \/ ExtractsAfterReply(tab, pending, outcome, req, res)]} :
       \E replied \in {[calls EXCEPT ![Len(calls)].reply = outcome.kind]} :
         IF "frame" \in DOMAIN res
           THEN /\ Issue(r, res.frame)
                /\ calls' = Append(replied, BackendCall(res.frame))
         ELSE IF "raised" \in DOMAIN res
           THEN /\ Finish(r, HTTPException(500))
                /\ calls' = replied
         ELSE /\ Finish(r, Answer(res.answer, res.mode, Hits(req), req.rsq, req.company_id))
              /\ calls' = replied
    /\ UNCHANGED <<indices, storage_dir, rag_engines, llm_router, USE_LOCAL_MODELS>>

\* doc_manager.upload_document (the file is written before it is parsed; update_document
\* removes the indexed file first), then the engine rebuild of the endpoint
Stored(company_id, document, kind) ==
    LET sections == Documents[document]
        stored == IF sections = <<>> THEN indices
                  ELSE DictSet(indices, company_id, [kind |-> kind, document |-> document])
    IN  /\ storage_dir' = DictSet(storage_dir, company_id, document)
        /\ indices' = stored
        /\ rag_engines' = IF company_id \in DOMAIN stored
                          THEN DictSet(rag_engines, company_id,
                                       RAGEngine(stored[company_id], USE_LOCAL_MODELS, llm_router))
                          ELSE rag_engines

\* the upload or update endpoint op as the only handler running
Store(op, company_id, document, kind) ==
    LET sections == Documents[document]
    IN  /\ Stored(company_id, document, kind)
        /\ req' = [op |-> op, company_id |-> company_id, document |-> document]
        /\ response' = IF sections = <<>> THEN [company_id |-> company_id, status |-> "error"]
                       ELSE [company_id |-> company_id, status |-> "uploaded", sections |-> Len(sections)]
        /\ calls' = <<>>
        /\ UNCHANGED <<pending, llm_router, USE_LOCAL_MODELS>>

\* POST /api/companies/{company_id}/documents
UploadDocument ==
    /\ req = NoRequest
    /\ \E company_id \in Tenants :
         \E document \in UploadsOf(company_id) :
           \E kind \in KindsOf(document) : Store("upload_document", company_id, document, kind)

\* PUT /api/companies/{company_id}/documents
UpdateDocument ==
    /\ req = NoRequest
    /\ \E company_id \in Tenants :
         \E document \in UploadsOf(company_id) :
           \E kind \in KindsOf(document) : Store("update_document", company_id, document, kind)

\* doc_manager.delete_document (the file of the indexed document is removed), then
\* rag_engines.pop(company_id, None) when it returned True
Deleted(company_id) ==
    IF company_id \in DOMAIN indices
      THEN /\ indices' = DictPop(indices, company_id)
           /\ storage_dir' = IF storage_dir[company_id] = indices[company_id].document
                             THEN DictPop(storage_dir, company_id)
                             ELSE storage_dir
           /\ rag_engines' = DictPop(rag_engines, company_id)
      ELSE UNCHANGED <<indices, storage_dir, rag_engines>>

\* DELETE /api/companies/{company_id}/documents
DeleteDocument ==
    /\ req = NoRequest
    /\ \E company_id \in Tenants :
         /\ req' = [op |-> "delete_document", company_id |-> company_id]
         /\ response' = IF company_id \in DOMAIN indices
                        THEN [status |-> "deleted", company_id |-> company_id]
                        ELSE HTTPException(404)
         /\ Deleted(company_id)
    /\ calls' = <<>>
    /\ UNCHANGED <<pending, llm_router, USE_LOCAL_MODELS>>

(***************************************************************************)
(* Handlers of other clients that run while a chat handler constructs its  *)
(* engine (chat_handler.py, between get_index and rag_engines[...] = ...). *)
(* Their responses go to those clients and are not recorded in req.        *)
(* From index.search on the chat handler works on the index and engine it  *)
(* holds, so a handler running later than that acts as one running after   *)
(* the chat handler.                                                       *)
(***************************************************************************)
Constructing == pending # NoObject /\ pending.ctx = "RAGEngine"

\* DELETE /api/companies/{company_id}/documents of another client
DeleteDocumentMeanwhile ==
    /\ Constructing
    /\ \E company_id \in DOMAIN indices : Deleted(company_id)
    /\ UNCHANGED <<req, pending, calls, response, llm_router, USE_LOCAL_MODELS>>

\* POST or PUT /api/companies/{company_id}/documents of another client
UploadDocumentMeanwhile ==
    /\ Constructing
    /\ \E company_id \in Tenants :
         \E document \in UploadsOf(company_id) :
           \E kind \in KindsOf(document) : Stored(company_id, document, kind)
    /\ UNCHANGED <<req, pending, calls, response, llm_router, USE_LOCAL_MODELS>>

\* the response goes back to the client and the handler ends
Respond ==
    /\ req # NoRequest
    /\ pending = NoObject
    /\ req' = NoRequest
    /\ response' = NoObject
    /\ calls' = <<>>
    /\ UNCHANGED <<indices, storage_dir, rag_engines, pending, llm_router, USE_LOCAL_MODELS>>

Next ==
    \/ ProcessChatQuery
    \/ Chat
    \/ ChatWithCompany
    \/ EngineConstructed
    \/ BackendReply
    \/ UploadDocument
    \/ UpdateDocument
    \/ DeleteDocument
    \/ DeleteDocumentMeanwhile
    \/ UploadDocumentMeanwhile
    \/ Respond

Spec == Init /\ [][Next]_vars

(***************************************************************************)
(* Properties                                                              *)
(***************************************************************************)
ChatOps == {"process_chat_query", "chat", "chat_with_company"}

\* req is a chat request
IsChat == req.op \in ChatOps

\* the handler of the chat request req has returned or raised
Served == IsChat /\ pending = NoObject

\* the handler of the chat request req has returned an Answer
IsAnswer == Served /\ "answer" \in DOMAIN response

\* response.get("sources", [])
SourcesOf(resp) == IF "sources" \in DOMAIN resp THEN resp.sources ELSE <<>>

\* neither the fact tier nor the smart tier yields an answer for the request r on its best hit
NoExtraction(r) ==
    /\ ~Truthy(SimpleAnswers[r.q, Hits(r)[1].doc.text])
    /\ ~Truthy(SmartAnswers[r.q, Hits(r)[1].doc.text])

\* C1: a chat request that retrieved at least one hit ends with an Answer, never with an
\* exception, whatever the generation backend did on the primary and on every later call,
\* with a router (one that has no model handle included) and in legacy mode.
C1_AnswerDespiteBackendFailure ==
    (Served /\ req.hits # <<>>) => "answer" \in DOMAIN response

\* every call of the legacy fast path failed and the request still got its Answer
C1_Witness ==
    /\ IsAnswer
    /\ llm_router = NoObject
    /\ Len(calls) = 4
    /\ \A i \in 1..4 : calls[i].reply \in FailureKinds
    /\ response.mode = "retrieval_fallback"

C3_FallbackOnEveryTier ==
    /\ (Served /\ llm_router # NoObject /\ calls # <<>> /\ calls[1].reply \in {"timeout", "connection"})
          => Len(calls) >= 2
    /\ \A i \in 1..Len(calls) : calls[i].use_fallback => calls[i].timeout >= 60

\* C3 amended: in router mode, on the tiers whose configured fallback model differs from
\* the tier's model (fast and standard in the default configuration), a primary call that
\* failed by timeout or connection failure is followed by a fallback call before generation
\* is given up; on the reasoning tier, whose fallback is its own model, no fallback call
\* follows; and every fallback call, in either mode, has a timeout of at least 60 seconds.
C3_FallbackWhereConfigured ==
    /\ (Served /\ llm_router # NoObject /\ calls # <<>> /\ calls[1].reply \in {"timeout", "connection"})
          => IF calls[1].model # ConfigOf(req).fallback THEN Len(calls) >= 2 ELSE Len(calls) = 1
    /\ \A i \in 1..Len(calls) : calls[i].use_fallback => calls[i].timeout >= 60

\* the standard tier: the primary call lost its connection and the router's fallback call followed
C3_Witness ==
    /\ Served
    /\ llm_router # NoObject
    /\ Len(calls) = 2
    /\ calls[1].reply = "connection"
    /\ calls[1].timeout = 30
    /\ calls[2].use_fallback
    /\ calls[2].timeout = 60

\* C4: every Answer of a request with at least one hit has a non-empty text.
C4_AnswerTextNonEmpty ==
    (IsAnswer /\ req.hits # <<>>) => response.answer # ""

\* the request ended with the no-hits Answer: mode fallback, a non-empty text, no source entry
\* (the returned dict carries no sources key, read as an empty list), no extraction tier run
\* and no generation call
NoHitsOutcome ==
    /\ IsAnswer
    /\ response.mode = "fallback"
    /\ response.answer # ""
    /\ SourcesOf(response) = <<>>
    /\ ~req.extracted
    /\ calls = <<>>

\* the corpus of a tenant: the sections of the document it stored last, none when it stored nothing
Corpus(company_id) ==
    IF company_id \in DOMAIN storage_dir THEN Documents[storage_dir[company_id]] ELSE <<>>

C6_TenantErrorBeforeWork ==
    [][ (/\ req = NoRequest
         /\ req'.op \in ChatOps
         /\ ~is_greeting(req'.q)
         /\ (~Truthy(req'.company_id) \/ req'.company_id \notin DOMAIN indices))
        => /\ response' = IF Truthy(req'.company_id) THEN [error |-> 404] ELSE [error |-> 400]
           /\ pending' = NoObject
           /\ ~req'.searched /\ ~req'.built /\ ~req'.extracted
           /\ calls' = <<>>
           /\ rag_engines' = rag_engines
           /\ indices' = indices ]_vars

\* a non-greeting request for a tenant without an index was refused
C6_Witness ==
    /\ Served
    /\ ~is_greeting(req.q)
    /\ Truthy(req.company_id)
    /\ req.company_id \notin DOMAIN indices
    /\ response = [error |-> 404]

\* C7: a chat request whose query is a greeting gets the canned reply with mode greeting,
\* without retrieval, engine construction or generation call, rag_engines unchanged, whether
\* or not the tenant exists, through process_chat_query and through both HTTP endpoints.
C7_GreetingEverywhere ==
    [][ (req = NoRequest /\ req'.op \in ChatOps /\ is_greeting(req'.q))
        => /\ response' = [answer |-> "Hallo! Womit kann ich Ihnen helfen?", mode |-> "greeting"]
           /\ pending' = NoObject
           /\ ~req'.searched /\ ~req'.built
           /\ calls' = <<>>
           /\ rag_engines' = rag_engines ]_vars

\* C8 as stated: with at least one hit, an RSQ below 0.05 and no extraction on the best hit,
\* no generation call is issued and the Answer is the clarification request of mode
\* low_relevance, with generation enabled or disabled.
C8_LowRelevanceAlways ==
    (IsChat /\ req.hits # <<>> /\ 100 * req.rsq < 5 * One /\ NoExtraction(req)) =>
        /\ calls = <<>>
        /\ Served => /\ "answer" \in DOMAIN response
                     /\ response.mode = "low_relevance"

\* C8 amended: with generation disabled (use_rag false), at least one hit, an RSQ below 0.05
\* and no extraction on the best hit, no generation call is issued and the Answer is the
\* clarification request of mode low_relevance.
C8_LowRelevanceWithoutGeneration ==
    (IsChat /\ ~req.use_rag /\ req.hits # <<>> /\ 100 * req.rsq < 5 * One /\ NoExtraction(req)) =>
        /\ calls = <<>>
        /\ IsAnswer
        /\ response.mode = "low_relevance"
        /\ response.answer = "Dazu habe ich leider keine Informationen. Können Sie die Frage anders formulieren? Oder sagen Sie mir, wobei ich Ihnen konkret helfen kann."

\* generation disabled, two close hits of low score, nothing to extract
C8_Witness ==
    /\ IsAnswer
    /\ ~req.use_rag
    /\ Len(req.hits) >= 2
    /\ req.rsq = 450
    /\ NoExtraction(req)
    /\ response.mode = "low_relevance"

\* C9: with generation disabled no generation call is issued, and every Answer of mode
\* retrieval has a text of at most 300 characters.
C9_RetrievalTextBounded ==
    (IsChat /\ ~req.use_rag) =>
        /\ calls = <<>>
        /\ (IsAnswer /\ response.mode = "retrieval") => Len(response.answer) <= 300

C11_NoEngineWithoutIndex ==
    req = NoRequest => DOMAIN rag_engines \subseteq DOMAIN indices

\* the sections of the documents the tenant company_id uploads
SectionsOf(company_id) ==
    UNION {{Documents[d][i] : i \in 1..Len(Documents[d])} : d \in UploadsOf(company_id)}

\* C12: after any sequence of uploads, updates, deletes and chat requests over the tenants,
\* every hit of a chat request scoped to a tenant is a section of a document of that tenant
\* and not a section of a document of another tenant.
C12_HitsWithinTenant ==
    IsChat => \A i \in 1..Len(req.hits) :
                /\ Hits(req)[i].doc \in SectionsOf(req.company_id)
                /\ \A other \in Tenants \ {req.company_id} : Hits(req)[i].doc \notin SectionsOf(other)

\* a request of one tenant got hits while another tenant is indexed too
C12_Witness ==
    /\ IsAnswer
    /\ req.hits # <<>>
    /\ DOMAIN indices = Tenants
    /\ DOMAIN rag_engines = Tenants

(***************************************************************************)
(* Direct calls of the router, the indices and the extraction tiers        *)
(***************************************************************************)
\* LLMRouter() whose tiers in broken have no handle
Routers == {[model_configs |-> model_configs, models |-> InitializeModels(model_configs, broken)] :
              model_configs \in {DefaultConfig, ReasoningConfig}, broken \in SUBSET Tiers}

\* queries of 2, 4, 11, 10, 18 and 21 words, with and without reasoning keyword and connective
RouteQueries ==
    LET Long == "Bitte nenne mir alle Preise der Pakete die im Dokument stehen mit allen Angaben zu Laufzeit Kosten Rabatt"
    IN  {"Hallo Welt", "Warum ist das so", "Was kostet das Abo und was kostet der Support im Monat",
         "Warum kostet das Abo im Monat mehr als der Support", Long, "Warum " \o Long \o " und wann"}

\* context chunks: up to MaxChunks sections of 3 or 1100 characters
MaxChunks == 4

RouteChunks ==
    LET RECURSIVE Repeat(_, _)
        Repeat(t, n) == IF n = 0 THEN "" ELSE t \o Repeat(t, n - 1)
        Texts == {"abc", Repeat("0123456789", 110)}
    IN  UNION {[1..n -> {[text |-> t] : t \in Texts}] : n \in 0..MaxChunks}

RouteRsqs == {0, 4000, 9000}

InitCalls ==
    /\ llm_router \in Routers
    /\ indices = EmptyDict
    /\ storage_dir = EmptyDict
    /\ rag_engines = EmptyDict
    /\ USE_LOCAL_MODELS = TRUE
    /\ req = NoRequest
    /\ pending = NoObject
    /\ calls = <<>>
    /\ response = NoObject

\* llm_router.route(query, context_chunks, rsq); req keeps the locals complexity and model_type
CallRoute ==
    /\ req = NoRequest
    /\ \E query \in RouteQueries, context_chunks \in RouteChunks, rsq \in RouteRsqs :
       \E complexity \in {calculate_complexity(query, context_chunks, rsq)} :
       \E r \in {route(llm_router, query, context_chunks, rsq)} :
         /\ req' = [op |-> "route", query |-> query, num_chunks |-> Len(context_chunks), rsq |-> rsq,
                    chunk_lengths |-> [i \in 1..Len(context_chunks) |-> Len(context_chunks[i].text)],
                    complexity |-> complexity, model_type |-> TierOf(complexity)]
         /\ response' = [llm |-> r[1], config |-> r[2]]
    /\ UNCHANGED <<indices, storage_dir, rag_engines, llm_router, USE_LOCAL_MODELS, pending, calls>>

\* llm_router.generate(query, context_chunks, rsq, prompt) up to its first call of the backend;
\* req keeps the local config
CallGenerate ==
    /\ req = NoRequest
    /\ \E query \in RouteQueries, context_chunks \in RouteChunks, rsq \in RouteRsqs :
       \E r \in {route(llm_router, query, context_chunks, rsq)} :
         /\ req' = [op |-> "generate", query |-> query, num_chunks |-> Len(context_chunks), rsq |-> rsq,
                    config |-> r[2]]
         /\ IF r[1] = NoObject
              THEN /\ response' = [raised |-> "RuntimeError"]
                   /\ UNCHANGED <<pending, calls>>
              ELSE /\ response' = NoObject
                   /\ pending' = RouterPrimaryFrame(r[1], r[2], FALSE)
                   /\ calls' = <<BackendCall(RouterPrimaryFrame(r[1], r[2], FALSE))>>
    /\ UNCHANGED <<indices, storage_dir, rag_engines, llm_router, USE_LOCAL_MODELS>>

\* the backend answers the pending call of llm_router.generate, or the call fails:
\* LocalLLM.generate returns the text, calls itself with use_fallback=True, or raises to
\* LLMRouter.generate, which calls a LocalLLM of the configured fallback or raises
GenerateReply ==
    /\ req.op = "generate"
    /\ pending # NoObject
    /\ \E outcome \in {[kind |-> "ok", text |-> " Antwort "]} \cup {[kind |-> k] : k \in FailureKinds} :
       \E replied \in {[calls EXCEPT ![Len(calls)].reply = outcome.kind]} :
         IF outcome.kind = "ok"
           THEN /\ response' = [answer |-> Strip(outcome.text)]
                /\ pending' = NoObject
                /\ calls' = replied
         ELSE IF RetriesInternally(pending, outcome)
           THEN /\ response' = NoObject
                /\ pending' = RetryFrame(pending)
                /\ calls' = Append(replied, BackendCall(RetryFrame(pending)))
         ELSE IF pending.ctx = "router_primary" /\ RouterHasFallback(req.config)
           THEN /\ response' = NoObject
                /\ pending' = RouterFallbackFrame(req.config, FALSE)
                /\ calls' = Append(replied, BackendCall(RouterFallbackFrame(req.config, FALSE)))
         ELSE /\ response' = [raised |-> "Exception"]
              /\ pending' = NoObject
              /\ calls' = replied
    /\ UNCHANGED <<req, indices, storage_dir, rag_engines, llm_router, USE_LOCAL_MODELS>>

\* scores of hits handed to rsq_from_hits (1.2 is no score a search returns)
RsqScores == {0, 600, 5000, 8000, 8004, 8006, 10000, 12000}

\* index.rsq_from_hits(hits), by the lexical and by the semantic index, for up to 2 hits
CallRsq ==
    /\ req = NoRequest
    /\ \E n \in 0..2 :
       \E scores \in [1..n -> RsqScores] :
       \E hits \in {[i \in 1..n |-> [doc |-> Documents.invoice[i], score |-> scores[i]]]} :
         /\ req' = [op |-> "rsq_from_hits", scores |-> scores]
         /\ response' = [topic |-> rsq_from_hits(hits), vector |-> VectorIndex_rsq_from_hits(hits)]
    /\ UNCHANGED <<indices, storage_dir, rag_engines, llm_router, USE_LOCAL_MODELS, pending, calls>>

\* TopicIndex(docs) and VectorIndex(docs) over a corpus of three and of two sections
SearchIndices == {[kind |-> kind, document |-> document] : kind \in {"topic", "vector"},
                                                           document \in {"invoice", "tariff"}}

\* the empty query, a query of blanks, one without a word of the corpus, and the text of a section
SearchQueries == {"", "  ", "zzz", Documents.tariff[1].text}

\* index.search(query, top_k) for top_k up to the size of the larger corpus
CallSearch ==
    /\ req = NoRequest
    /\ \E index \in SearchIndices, query \in SearchQueries, top_k \in 1..Len(Documents.invoice) :
       \E hits \in SearchResults(index, query, top_k) :
         /\ req' = [op |-> "search", index |-> index, query |-> query, top_k |-> top_k]
         /\ response' = [hits |-> Kept(hits)]
    /\ UNCHANGED <<indices, storage_dir, rag_engines, llm_router, USE_LOCAL_MODELS, pending, calls>>

\* section texts handed to the fact tier: the amounts of an invoice, and the invoice section
ExtractTexts ==
    [amounts |-> "Gesamtbetrag: 100,00 €\nNettobetrag: 84,03 €", invoice |-> Documents.invoice[1].text]

\* questions for the total, the net amount, the invoice number and the company
ExtractQueries == {"Wie hoch ist der Gesamtbetrag?", "Nettobetrag?", "Welche Rechnungsnummer?", "Welche Firma?"}

\* rag_engine._extract_simple_answer(query, chunk_text); req names the text by its key
CallExtract ==
    /\ req = NoRequest
    /\ \E query \in ExtractQueries, text \in DOMAIN ExtractTexts :
         /\ req' = [op |-> "_extract_simple_answer", query |-> query, text |-> text]
         /\ response' = [answer |-> _extract_simple_answer(query, ExtractTexts[text])]
    /\ UNCHANGED <<indices, storage_dir, rag_engines, llm_router, USE_LOCAL_MODELS, pending, calls>>

\* process_chat_query from the search to the context of the prompt, for a lexical index over
\* n sections whose similarities fall with their position: hits = index.search(q, search_top_k),
\* context_chunks = [h.doc for h in hits], and generate_answer builds context_parts from them
CallContext ==
    /\ req = NoRequest
    /\ \E top_k \in 1..5, n \in 1..6 :
       \E docs \in {[i \in 1..n |-> [id |-> "s" \o ToString(i), title |-> "T" \o ToString(i),
                                     text |-> "T" \o ToString(i) \o "\ntext"]]} :
       \E hits \in {TopicSearch(docs, [i \in 1..n |-> 9000 - 1000 * i], [i \in 1..n |-> i],
                                search_top_k(top_k))} :
       \E context_chunks \in {[i \in 1..Len(hits) |-> hits[i].doc]} :
         /\ req' = [op |-> "context", top_k |-> top_k, sections |-> n]
         /\ response' = [context_parts |-> ContextParts(context_chunks)]
    /\ UNCHANGED <<indices, storage_dir, rag_engines, llm_router, USE_LOCAL_MODELS, pending, calls>>

\* section texts handed to the list tier: a bracketed enumeration, module names in running
\* text, bulleted lines (each naming one module twice), twelve module names, and no module
ListTexts ==
    [bracketed |-> "Das System hat drei Module (Input-Modul, Input-Modul und Output-Modul).",
     running   |-> "Das Input-Modul liest. Das Output-Modul schreibt. Das Input-Modul prueft.",
     bulleted  |-> "Module:\n- Modul Eingabe\n- Modul Ausgabe\n- Modul Eingabe",
     twelve    |-> "Aa-Modul Ab-Modul Ac-Modul Ad-Modul Ae-Modul Af-Modul Ag-Modul Ah-Modul Ai-Modul "
                   \o "Aj-Modul Ak-Modul Al-Modul",
     none      |-> "Das Abo kostet 10 Euro im Monat."]

\* rag_engine._extract_list_answer(query, chunk_text) for an enumeration question and another
\* question; req names the text by its key
CallExtractList ==
    /\ req = NoRequest
    /\ \E query \in {"Welche drei Module gibt es?", "Was kostet das Abo?"}, text \in DOMAIN ListTexts :
         /\ req' = [op |-> "_extract_list_answer", query |-> query, text |-> text]
         /\ response' = [answer |-> _extract_list_answer(query, ListTexts[text])]
    /\ UNCHANGED <<indices, storage_dir, rag_engines, llm_router, USE_LOCAL_MODELS, pending, calls>>

\* the call is over
Return ==
    /\ req # NoRequest
    /\ req' = NoRequest
    /\ pending' = NoObject
    /\ calls' = <<>>
    /\ response' = NoObject
    /\ UNCHANGED <<indices, storage_dir, rag_engines, llm_router, USE_LOCAL_MODELS>>

NextCalls ==
    \/ CallRoute
    \/ CallGenerate
    \/ GenerateReply
    \/ CallRsq
    \/ CallSearch
    \/ CallExtract
    \/ CallContext
    \/ CallExtractList
    \/ Return

SpecCalls == InitCalls /\ [][NextCalls]_vars

\* C13: route selects fast for a complexity below 0.3, standard from 0.3 to below 0.7 and
\* reasoning from 0.7 on: 0.25 gives fast, 0.3 and 0.5 give standard, 0.7 and 0.85 give
\* reasoning, and so does every complexity that the signals of a request add up to.
C13_RouteThresholds ==
    /\ TierOf(<<25, 0>>) = "fast"
    /\ TierOf(<<30, 0>>) = "standard"
    /\ TierOf(<<50, 0>>) = "standard"
    /\ TierOf(<<70, 0>>) = "reasoning"
    /\ TierOf(<<85, 0>>) = "reasoning"
    /\ req.op = "route" =>
         LET n == req.complexity[1]
             k == req.complexity[2]
         IN  /\ (n < 30 \/ (n = 30 /\ k < 0)) => req.model_type = "fast"
             /\ ((n > 30 \/ (n = 30 /\ k >= 0)) /\ (n < 70 \/ (n = 70 /\ k < 0))) => req.model_type = "standard"
             /\ (n > 70 \/ (n = 70 /\ k >= 0)) => req.model_type = "reasoning"

\* the signals of a request add up to exactly 0.3, and to exactly 0.7
C13_Witness ==
    /\ req.op = "route"
    /\ req.complexity \in {<<30, 0>>, <<70, 0>>}
    /\ req.model_type \in {"standard", "reasoning"}

\* C14: route returns the handle of the selected tier, of standard when that is missing, of
\* fast when standard is missing too, always with the configuration of the tier whose handle
\* it returns; with no handle at all generate raises and issues no backend call.
C14_RouteFallbackOrder ==
    /\ req.op = "route" =>
         LET returned ==
               IF llm_router.models[req.model_type] # NoObject THEN req.model_type
               ELSE IF llm_router.models["standard"] # NoObject THEN "standard"
               ELSE "fast"
         IN  /\ response.llm = llm_router.models[returned]
             /\ response.config = llm_router.model_configs[returned]
    /\ (req.op = "generate" /\ \A t \in Tiers : llm_router.models[t] = NoObject) =>
         /\ response = [raised |-> "RuntimeError"]
         /\ pending = NoObject
         /\ calls = <<>>

\* the selected tier has no handle and the handle of standard is returned
C14_Witness ==
    /\ req.op = "route"
    /\ llm_router.models[req.model_type] = NoObject
    /\ req.model_type # "standard"
    /\ response.llm # NoObject
    /\ response.llm = llm_router.models["standard"]

\* C15: rsq_from_hits returns clamp(round(0.75*best + 0.25*max(0, best - second), 3), 0, 1)
\* with second = 0 for a single hit, 0 for no hit and 0.675 for the scores [0.8, 0.5], and
\* the lexical and the semantic index return the same value for the same scores.
C15_RsqFormula ==
    req.op = "rsq_from_hits" =>
      LET scores   == req.scores
          best     == scores[1]
          second   == IF Len(scores) > 1 THEN scores[2] ELSE 0
          rounded  == 10 * RoundDiv(75 * best + 25 * (IF best > second THEN best - second ELSE 0), 1000)
          expected == IF scores = <<>> THEN 0
                      ELSE IF rounded < 0 THEN 0 ELSE IF rounded > One THEN One ELSE rounded
      IN  /\ response.topic = expected
          /\ response.vector = response.topic
          /\ scores = <<8000, 5000>> => response.topic = 6750

\* the scores [0.8, 0.5] gave 0.675
C15_Witness ==
    /\ req.op = "rsq_from_hits"
    /\ req.scores = <<8000, 5000>>
    /\ response = [topic |-> 6750, vector |-> 6750]

\* C16: the RSQ lies in [0, 1], and with the best score fixed it does not rise when the
\* second score rises towards the best score.
C16_RsqMonotone ==
    req.op = "rsq_from_hits" =>
      /\ 0 <= response.topic /\ response.topic <= One
      /\ 0 <= response.vector /\ response.vector <= One
      /\ Len(req.scores) = 2 =>
           \A closer \in RsqScores :
             (req.scores[2] <= closer /\ closer <= req.scores[1]) =>
               LET hits == <<[doc |-> Documents.invoice[1], score |-> req.scores[1]],
                             [doc |-> Documents.invoice[2], score |-> closer]>>
               IN  /\ rsq_from_hits(hits) <= response.topic
                   /\ VectorIndex_rsq_from_hits(hits) <= response.vector

\* a second score below the best one, with a closer second score that gives a smaller RSQ
C16_Witness ==
    /\ req.op = "rsq_from_hits"
    /\ req.scores = <<8004, 600>>
    /\ response.vector > VectorIndex_rsq_from_hits(<<[doc |-> Documents.invoice[1], score |-> 8004],
                                                     [doc |-> Documents.invoice[2], score |-> 8000]>>)

\* C17: the hit list search returns is ordered by non-increasing score, and hits of equal score
\* come in the order of their sections in the corpus, for the lexical and the semantic index.
C17_HitsOrdered ==
    req.op = "search" =>
      LET docs == Documents[req.index.document]
          hits == response.hits
          Position(h) == CHOOSE i \in 1..Len(docs) : docs[i].id = h.doc
      IN  \A a, b \in 1..Len(hits) :
            a < b => /\ hits[a].score >= hits[b].score
                     /\ hits[a].score = hits[b].score => Position(hits[a]) < Position(hits[b])

\* C18: search(query, top_k) returns at most top_k hits, each with a score in [0, 1], and
\* process_chat_query searches with min(top_k + 1, 5) for the top_k its caller requested.
C18_HitsBounded ==
    /\ \A top_k \in 1..5 : search_top_k(top_k) = Min(top_k + 1, 5)
    /\ req.op = "search" =>
         /\ Len(response.hits) <= req.top_k
         /\ \A i \in 1..Len(response.hits) : 0 <= response.hits[i].score /\ response.hits[i].score <= One

\* C19: search called with an empty query returns no hit, for the lexical and for the
\* semantic index and for every corpus.
C19_EmptyQueryNoHits ==
    (req.op = "search" /\ Strip(req.query) = "") => response.hits = <<>>

\* C20: the fact tier returns the bare extracted value without surrounding prose: for a text
\* containing 'Gesamtbetrag: 100,00 €' and a query containing 'Gesamtbetrag' exactly
\* '100,00 €', and likewise the bare net amount.
C20_BareValue ==
    (req.op = "_extract_simple_answer" /\ req.text = "amounts") =>
      /\ Contains(Lower(req.query), "gesamtbetrag") => response.answer = "100,00 €"
      /\ Contains(Lower(req.query), "nettobetrag") => response.answer = "84,03 €"

(***************************************************************************)
(* Concurrent chat handlers of one tenant (chat_handler.py, lines 65-77).  *)
(* The chat endpoints are plain functions, which the server runs in worker *)
(* threads; a handler can be pre-empted between the lookup of the engine,  *)
(* its construction and its entry into the registry.                       *)
(* req.handlers[h] holds the position pc of handler h and its local        *)
(* rag_engine; an engine instance is named by the handler that built it,  *)
(* 0 is None.                                                              *)
(***************************************************************************)
MaxHandlers == 3

InitRace ==
    /\ indices = [k \in {"acme"} |-> [kind |-> "vector", document |-> "terms"]]
    /\ storage_dir = [k \in {"acme"} |-> "terms"]
    /\ rag_engines = EmptyDict
    /\ llm_router = NoObject
    /\ USE_LOCAL_MODELS = TRUE
    /\ req = [op |-> "concurrent_chats", company_id |-> "acme",
              handlers |-> [h \in 1..MaxHandlers |-> [pc |-> "get", rag_engine |-> 0, built |-> FALSE]]]
    /\ pending = NoObject
    /\ calls = <<>>
    /\ response = NoObject

\* rag_engine = rag_engines.get(company_id); if not rag_engine: ...
GetEngine ==
    \E h \in 1..MaxHandlers :
      /\ req.handlers[h].pc = "get"
      /\ req' = IF req.company_id \in DOMAIN rag_engines
                THEN [req EXCEPT !.handlers[h].pc = "search",
                                 !.handlers[h].rag_engine = rag_engines[req.company_id].instance]
                ELSE [req EXCEPT !.handlers[h].pc = "construct"]
      /\ UNCHANGED <<indices, storage_dir, rag_engines, llm_router, USE_LOCAL_MODELS, pending, calls, response>>

\* rag_engine = RAGEngine(index, use_local=use_local, llm_router=llm_router)
ConstructEngine ==
    \E h \in 1..MaxHandlers :
      /\ req.handlers[h].pc = "construct"
      /\ req' = [req EXCEPT !.handlers[h].pc = "assign", !.handlers[h].rag_engine = h,
                            !.handlers[h].built = TRUE]
      /\ UNCHANGED <<indices, storage_dir, rag_engines, llm_router, USE_LOCAL_MODELS, pending, calls, response>>

\* rag_engines[company_id] = rag_engine
AssignEngine ==
    \E h \in 1..MaxHandlers :
      /\ req.handlers[h].pc = "assign"
      /\ rag_engines' = DictSet(rag_engines, req.company_id,
                                [engine |-> RAGEngine(indices[req.company_id], USE_LOCAL_MODELS, llm_router),
                                 instance |-> req.handlers[h].rag_engine])
      /\ req' = [req EXCEPT !.handlers[h].pc = "search"]
      /\ UNCHANGED <<indices, storage_dir, llm_router, USE_LOCAL_MODELS, pending, calls, response>>

\* the rest of the handler, from index.search on, works with the local rag_engine
AnswerWithEngine ==
    \E h \in 1..MaxHandlers :
      /\ req.handlers[h].pc = "search"
      /\ req' = [req EXCEPT !.handlers[h].pc = "done"]
      /\ UNCHANGED <<indices, storage_dir, rag_engines, llm_router, USE_LOCAL_MODELS, pending, calls, response>>

NextRace ==
    \/ GetEngine
    \/ ConstructEngine
    \/ AssignEngine
    \/ AnswerWithEngine

SpecRace == InitRace /\ [][NextRace]_vars

\* C21: with generation enabled a generation call is issued only if every extraction tier
\* (fact, list, contextual) returns None on the text of the best hit.
C21_GenerationOnlyAfterExtraction ==
    (IsChat /\ req.use_rag /\ calls # <<>>) => NoExtraction(req)

\* C22: mode rag is reported only when the returned text came from a successful model call;
\* a text that an extraction tier or the sentence fallback produced, no model call having
\* succeeded, carries another mode.
C22_RagModeOnlyFromModel ==
    (IsAnswer /\ response.mode = "rag") => (calls # <<>> /\ calls[Len(calls)].reply = "ok")

\* C23: when the answer of the model is identical to the text of the top chunk, contains it
\* or is contained in it, that text is not returned: the Answer carries the value of an
\* extraction tier or, when every tier returns None, the first sentences of the chunk.
C23_ChunkEchoDiscarded ==
    (IsAnswer /\ calls # <<>> /\ calls[Len(calls)].reply = "ok") =>
      LET chunk_text     == Hits(req)[1].doc.text
          answer_stripped == Strip(response.answer)
          chunk_stripped  == Strip(chunk_text)
          extracted       == ExtractedOrNone(Tabulated, req.q, chunk_text, req.company_id)
      IN  (answer_stripped = chunk_stripped \/ Contains(chunk_stripped, answer_stripped)
             \/ Contains(answer_stripped, chunk_stripped)) =>
            response.answer = (IF extracted # None THEN extracted ELSE ChunkFallbacks[chunk_text])

\* C24: of the concurrent chat requests of a tenant without cached engine exactly one
\* constructs a RAGEngine and all of them use that instance; when all have finished the
\* registry holds that engine.
C24_SingleConstruction ==
    (req.op = "concurrent_chats" /\ \A h \in 1..MaxHandlers : req.handlers[h].pc = "done") =>
      /\ Cardinality({h \in 1..MaxHandlers : req.handlers[h].built}) = 1
      /\ \A h \in 1..MaxHandlers : req.handlers[h].rag_engine = rag_engines[req.company_id].instance

\* C25: calculate_complexity returns min(1.0, sum of the weights of the signals that apply):
\* 0.2 for more than 15 words, else 0.1 for more than 8; 0.3 for a reasoning keyword; 0.2 for
\* more than 3 chunks, else 0.1 for more than 1; 0.2 for more than 2000 characters of context,
\* else 0.1 for more than 1000; 0.2 for an rsq below 0.3, else 0.1 below 0.5; 0.1 for a
\* compound marker. The result is the float sum (within one unit in the last place of the
\* decimal sum) and lies in [0, 1].
C25_ComplexityIsClampedSum ==
    req.op = "route" =>
      LET RECURSIVE Total(_)
          Total(lengths) == IF lengths = <<>> THEN 0 ELSE lengths[1] + Total(Tail(lengths))
          words    == Len(SplitWs(req.query))
          lower    == Lower(req.query)
          length   == Total(req.chunk_lengths)
          Weight(strong, weak) == IF strong THEN 20 ELSE IF weak THEN 10 ELSE 0
          sum ==   Weight(words > 15, words > 8)
                 + (IF \E k \in 1..Len(reasoning_keywords) : Contains(lower, reasoning_keywords[k]) THEN 30 ELSE 0)
                 + Weight(req.num_chunks > 3, req.num_chunks > 1)
                 + Weight(length > 2000, length > 1000)
                 + Weight(10 * req.rsq < 3 * One, 10 * req.rsq < 5 * One)
                 + (IF \E m \in {" und ", " sowie ", " oder "} : Contains(lower, m) THEN 10 ELSE 0)
      IN  /\ req.complexity[1] = (IF sum > 100 THEN 100 ELSE sum)
          /\ req.complexity[2] \in {-1, 0, 1}
          /\ req.complexity[1] \in 0..100
          /\ req.complexity[1] = 100 => req.complexity[2] <= 0
          /\ req.complexity[1] = 0 => req.complexity[2] = 0

\* all six signals apply with their larger weight: the sum 1.2 is returned as 1.0
C25_Witness ==
    /\ req.op = "route"
    /\ Len(SplitWs(req.query)) > 15
    /\ req.num_chunks > 3
    /\ req.rsq = 0
    /\ Contains(Lower(req.query), " und ") /\ Contains(Lower(req.query), "warum")
    /\ req.chunk_lengths[1] + req.chunk_lengths[2] > 2000
    /\ req.complexity = <<100, 0>>

\* C26: every backend call made for the support tenant, the fallback attempts after a timeout
\* or an error of the primary call included, carries the support preamble.
C26_SupportPreambleOnEveryCall ==
    (IsChat /\ IsPlanovo(req.company_id)) => \A i \in 1..Len(calls) : calls[i].system = "support"

\* C27: the prompt embeds at most 3 ranked sections as context, for every requested top_k
\* in 1..5 and every corpus size.
C27_AtMostThreeSections ==
    req.op = "context" => Len(response.context_parts) <= 3

\* C28: for an enumeration question the list tier returns a numbered list '1. ..', '2. ..' of
\* at most 10 items without duplicates, whichever source the items come from, and None when
\* it finds no item.
C28_NumberedListWithoutDuplicates ==
    (req.op = "_extract_list_answer" /\ req.query = "Welche drei Module gibt es?") =>
      IF req.text = "none" THEN response.answer = None
      ELSE LET lines   == Split(response.answer, "\n")
               Item(k) == Slice(lines[k], Len(IntToStr(k)) + 3, Len(lines[k]))
           IN  /\ response.answer # None
               /\ Len(lines) <= 10
               /\ \A k \in 1..Len(lines) : StartsWith(lines[k], IntToStr(k) \o ". ")
               /\ \A j, k \in 1..Len(lines) : j < k => Item(j) # Item(k)

\* C29: the fallback call LLMRouter.generate issues after the primary call failed goes to the
\* model id configured as fallback of the routed tier, in every tier and configuration whose
\* fallback id differs from the primary model id.
C29_FallbackCallToConfiguredFallback ==
    req.op = "generate" =>
      \A i \in 1..Len(calls) :
        calls[i].ctx = "router_fallback" => calls[i].model = req.config.fallback

\* C30: whenever no request is in flight, the engine cached for a tenant that has an index was
\* built from that index, under every interleaving of uploads, updates and chat requests of
\* the tenant, a chat request that constructs its engine while an upload replaces the index
\* included.
C30_EngineOverCurrentIndex ==
    req = NoRequest =>
      \A company_id \in DOMAIN rag_engines \cap DOMAIN indices :
        rag_engines[company_id].index = indices[company_id]

====
